---- MODULE Spec2Model ----
(***************************************************************************)
(* Model of dms-awww: the debounced watcher (src/src/watcher/mod.rs), the  *)
(* session differ (src/src/dms/mod.rs), the parallel executor              *)
(* (src/src/executor/mod.rs) and the daemon loop (src/src/main.rs).        *)
(*                                                                         *)
(* Each component has its own specification over the shared variables:     *)
(*   SpecW  the DebouncedWatcher driven by a caller and a clock            *)
(*   SpecE  one Executor::apply_wallpaper call and the tasks it spawns     *)
(*   SpecS  a DmsSession polled with has_changed while the file is rewritten*)
(*   SpecD  the daemon loop of run(): watcher, session read and executor   *)
(*   SpecM  monitor resolution (src/src/niri/mod.rs) on drawn inputs        *)
(*   SpecC  is_critical and is_recoverable (src/src/error.rs) on drawn errors*)
(*   SpecT  the readers of session.json and settings.json and one apply     *)
(*   SpecB  the bridge task of FileWatcher::new in front of the watcher     *)
(*   SpecP  the text parser of the compositor's output list                 *)
(*   SpecL  run() from the initial apply on, with a log of its applies      *)
(*   SpecF  the session differ with a record of the rewrites between calls  *)
(*   SpecQ  the bridge task under a burst that outgrows its channel         *)
(***************************************************************************)
EXTENDS Integers, Sequences, FiniteSets, TLC

(***************************************************************************)
(* Bounds                                                                  *)
(***************************************************************************)
\* the clock runs from 0 to MaxTime ticks
MaxTime == 8
\* number of raw qualifying notifications the file system produces
MaxEvents == 3
\* debounce_ms is drawn from 0..MaxDebounce
MaxDebounce == 2

\* the executor's monitor list and the session's monitors are drawn from
\* the first NumMonitors names of MonitorNames
NumMonitors == 2
\* a WallpaperChange handed to the executor holds 1..MaxWallpapers wallpapers
MaxWallpapers == 2

\* in the daemon's specification the clock runs to DaemonMaxTime ticks, the
\* session file is rewritten DaemonMaxEvents times and debounce_ms is drawn
\* from 0..DaemonMaxDebounce
DaemonMaxTime == 2
DaemonMaxEvents == 2
DaemonMaxDebounce == 1

\* the explicit monitor list holds up to MaxExplicit names and the compositor
\* reports up to MaxOutputs outputs
MaxExplicit == 2
MaxOutputs == 2

\* in the bridge's specification the notify callback is called
\* BridgeMaxEvents times, the clock runs to BridgeMaxTime ticks and
\* debounce_ms is drawn from 0..BridgeMaxDebounce
BridgeMaxEvents == 2
BridgeMaxTime == 3
BridgeMaxDebounce == 1

\* a burst has at most BurstMaxEvents notifications, two more than the
\* channel holds
BurstMaxEvents == 34

\* the text handed to the text parser has at most MaxLines lines
MaxLines == 3

\* clock ticks per millisecond: Instant is finer than the millisecond that
\* Duration::as_millis truncates to
TicksPerMs == 2

\* the capacity of the channel between the bridge task and next()
ChannelCapacity == 32

VARIABLES
    \* ---- watcher (DebouncedWatcher + FileWatcher.rx) ----
    now,              \* tokio::time::Instant::now(), in ticks
    debounce_ms,      \* DebouncedWatcher.debounce_ms
    last_event_time,  \* DebouncedWatcher.last_event_time: <<>> (None) or <<t>>
    rx,               \* FileWatcher.rx: events queued in the mpsc channel
    closed,           \* the sending half of the channel has been dropped
    wpc,              \* position of the caller in DebouncedWatcher::next
    wake,             \* deadline of the tokio::time::sleep in next()
    event,            \* the local `event` of next(): <<>> or <<e>>
    wret,             \* what the last call of next() returned
    raised,           \* number of raw events sent so far
    burst,            \* history: <<first, last>> arrival times of the raw events
    emitted,          \* history: ids of the events next() returned, in order
    prev_emitted,     \* history: last_event_time before the latest emission
    dropped,          \* history: events next() received and let go unreturned
    \* ---- executor (Executor, one apply cycle) ----
    config,           \* Executor.config: [awww_enabled, matugen_enabled, default_scheme]
    monitors,         \* Executor.monitors
    exists,           \* the wallpaper paths that exist on disk
    change,           \* the WallpaperChange being applied
    epc,              \* position in apply_wallpaper: idle, join, returned
    apc,              \* position in apply_awww: start, joining, done
    mpc,              \* position in apply_matugen: start, running, done
    tasks,            \* the JoinSet of apply_awww, in spawn order
    errors,           \* the `errors` Vec<String> of apply_awww
    awww_result,      \* what apply_awww returned
    matugen_result,   \* what apply_matugen returned
    matugen_calls,    \* the dms matugen commands run by apply_matugen, in order
    apply_result,     \* what apply_wallpaper returned: <<>> or <<result>>
    \* ---- session differ (DmsSession and the session file) ----
    session,          \* the session.json file on disk
    last_wallpapers,  \* DmsSession.last_wallpapers, the fingerprint
    hret,             \* what the has_changed call that just returned gave
    hbefore,          \* history: last_wallpapers when that call was made
    hrepeat,          \* history: that call followed a successful call at once
    observed,         \* history: the paths the latest successful call read
    observed_before,  \* history: `observed` when the call that returned was made
    rstate,           \* what get_current_state gave for the file: <<>> or <<state>>
    \* ---- daemon (run() of main.rs) ----
    dpc,              \* position in run()
    once,             \* the --once flag
    dret,             \* what run() returned: <<>> or <<result>>
    installed,        \* the commands `which` finds in the PATH
    \* ---- monitor resolution (niri::get_monitor_outputs) ----
    explicit_outputs, \* the explicit list: config.get_monitor_outputs()
    auto_detect,      \* config.general.auto_detect_monitors
    niri,             \* the compositor as the niri command finds it
    mres,             \* what the resolution returned: <<>> or <<result>>
    stdout_text,      \* the lines a command printed, given to the text parser
    pres,             \* what parse_niri_outputs_text returned: <<>> or <<result>>
    \* ---- theme settings (settings.json and DmsSession::get_matugen_scheme) ----
    settings,         \* the settings.json file on disk
    scheme_ret,       \* what get_matugen_scheme returned: <<>> or <<scheme>>
    \* ---- error classification (DmsAwwwError) ----
    err,              \* the error that is classified
    critical_ret,     \* what is_critical returned for it: <<>> or <<bool>>
    recoverable_ret,  \* what is_recoverable returned for it: <<>> or <<bool>>
    \* ---- notification bridge (FileWatcher::new) ----
    nrx,              \* the std channel from the notify callback to the bridge task
    nraised,          \* number of raw notifications the callback was given
    handled,          \* history: the notifications the bridge task took, in order
    \* ---- the daemon's log ----
    attempts,         \* history: the apply_wallpaper_once calls of run() so far
    since             \* history: the rewrites since the last successful has_changed

wvars == <<now, debounce_ms, last_event_time, rx, closed, wpc, wake, event,
           wret, raised, burst, emitted, prev_emitted, dropped>>

evars == <<config, monitors, exists, change, epc, apc, mpc, tasks, errors,
           awww_result, matugen_result, matugen_calls, apply_result>>

svars == <<session, last_wallpapers, hret, hbefore, hrepeat, observed,
           observed_before, rstate>>

dvars == <<dpc, once, dret, installed>>

mvars == <<explicit_outputs, auto_detect, niri, mres, stdout_text, pres>>

tvars == <<settings, scheme_ret>>

cvars == <<err, critical_ret, recoverable_ret>>

bvars == <<nrx, nraised, handled>>

hvars == <<attempts, since>>

vars == <<wvars, evars, svars, dvars, mvars, tvars, cvars, bvars, hvars>>

(***************************************************************************)
(* Option values are sequences of length at most one                       *)
(***************************************************************************)
None == << >>
Some(x) == <<x>>

(***************************************************************************)
(* Debounced watcher                                                       *)
(***************************************************************************)
\* Duration::as_millis: whole milliseconds of a duration given in ticks
AsMillis(ticks) == ticks \div TicksPerMs

\* Duration::from_millis, in ticks
FromMillis(ms) == ms * TicksPerMs

\* now.duration_since(last_time).as_millis() as u64
Elapsed(t, last_time) == AsMillis(IF t >= last_time THEN t - last_time ELSE 0)

\* a faulty variant: the comparison lets an event through one millisecond early
ShouldEmit_OneEarly(last, t, d) ==
    IF last = None THEN TRUE ELSE Elapsed(t, last[1]) + 1 >= d

\* the branch next() takes for an event received at time t:
\* emit when last_event_time is None or elapsed >= debounce_ms
ShouldEmit(last, t, d) ==
    IF last = None THEN TRUE ELSE Elapsed(t, last[1]) >= d

\* DebouncedWatcher::new
InitWatcher ==
    /\ now = 0
    /\ debounce_ms \in 0..MaxDebounce
    /\ last_event_time = None
    /\ rx = << >>
    /\ closed = FALSE
    /\ wpc = "idle"
    /\ wake = 0
    /\ event = None
    /\ wret = "none"
    /\ raised = 0
    /\ burst = None
    /\ emitted = << >>
    /\ prev_emitted = None
    /\ dropped = {}

\* the clock advances
Tick ==
    /\ now < MaxTime
    /\ now' = now + 1
    /\ UNCHANGED <<debounce_ms, last_event_time, rx, closed, wpc, wake, event,
                   wret, raised, burst, emitted, prev_emitted, dropped>>

\* the bridge task sends a qualifying FileEvent into the channel
Notify ==
    /\ ~closed
    /\ raised < MaxEvents
    /\ raised' = raised + 1
    /\ rx' = Append(rx, raised + 1)
    /\ burst' = IF burst = None THEN <<now, now>> ELSE <<burst[1], now>>
    /\ UNCHANGED <<now, debounce_ms, last_event_time, closed, wpc, wake, event,
                   wret, emitted, prev_emitted, dropped>>

\* the bridge task ends: the sender is dropped
CloseChannel ==
    /\ ~closed
    /\ closed' = TRUE
    /\ UNCHANGED <<now, debounce_ms, last_event_time, rx, wpc, wake, event,
                   wret, raised, burst, emitted, prev_emitted, dropped>>

\* the caller calls watcher.next()
CallNext ==
    /\ wpc = "idle"
    /\ wret # "eos"
    /\ wpc' = "recv"
    /\ wret' = "none"
    /\ UNCHANGED <<now, debounce_ms, last_event_time, rx, closed, wake, event,
                   raised, burst, emitted, prev_emitted, dropped>>

\* self.watcher.next().await yields Some(e): emit, or sleep out the interval
Recv ==
    /\ wpc = "recv"
    /\ rx # << >>
    /\ rx' = Tail(rx)
    /\ IF ShouldEmit(last_event_time, now, debounce_ms)
       THEN /\ last_event_time' = Some(now)
            /\ prev_emitted' = last_event_time
            /\ emitted' = Append(emitted, Head(rx))
            /\ wpc' = "idle"
            /\ wret' = "event"
            /\ UNCHANGED <<wake, event>>
       ELSE /\ wake' = now + FromMillis(debounce_ms - Elapsed(now, last_event_time[1]))
            /\ event' = Some(Head(rx))
            /\ wpc' = "sleep"
            /\ UNCHANGED <<last_event_time, emitted, prev_emitted, wret>>
    /\ UNCHANGED <<now, debounce_ms, closed, raised, burst, dropped>>

\* self.watcher.next().await yields None: the channel is closed and empty
RecvNone ==
    /\ wpc = "recv"
    /\ rx = << >>
    /\ closed
    /\ wpc' = "idle"
    /\ wret' = "eos"
    /\ UNCHANGED <<now, debounce_ms, last_event_time, rx, closed, wake, event,
                   raised, burst, emitted, prev_emitted, dropped>>

\* a faulty variant: the end of the sleep stamps last_event_time
Wake_StampsLast ==
    /\ wpc = "sleep"
    /\ now >= wake
    /\ wpc' = "recv"
    /\ dropped' = dropped \cup {event[1]}
    /\ event' = None
    /\ last_event_time' = Some(now)
    /\ UNCHANGED <<now, debounce_ms, rx, closed, wake, wret,
                   raised, burst, emitted, prev_emitted>>

\* the sleep is over: `continue`, the event in hand goes out of scope and
\* the loop awaits the channel again
Wake ==
    /\ wpc = "sleep"
    /\ now >= wake
    /\ wpc' = "recv"
    /\ dropped' = dropped \cup {event[1]}
    /\ event' = None
    /\ UNCHANGED <<now, debounce_ms, last_event_time, rx, closed, wake, wret,
                   raised, burst, emitted, prev_emitted>>

(***************************************************************************)
(* Notification bridge (FileWatcher::new)                                  *)
(***************************************************************************)
\* paths are sequences of components: the session file, the temporary file
\* the shell writes next to it, and a path that ends in `..`
SessionPath == <<"dms", "session.json">>
TmpPath == <<"dms", "session.json.tmp">>
ParentPath == <<"dms", "..">>

\* Path::file_name: the final component, if it is a normal one
file_name(path) ==
    IF path = << >> THEN None
    ELSE IF path[Len(path)] = ".." THEN None
    ELSE Some(path[Len(path)])

\* target_filename of FileWatcher::new for the watched path
target_filename == file_name(SessionPath)[1]

\* the raw notifications the notify backend hands to the callback: a kind
\* and the paths concerned (two for a rename)
EventKinds == {"Create", "Modify", "Remove", "Any", "Access"}
RawEvents ==
    [kind : EventKinds,
     paths : {<<SessionPath>>, <<TmpPath>>, <<TmpPath, SessionPath>>, <<ParentPath>>}]

\* a faulty variant: every notification with a path is taken for the target
is_target_AnyPath(ev, name) == ev.paths # << >>

\* is_target of the bridge task
is_target(ev, name) ==
    \E i \in DOMAIN ev.paths : file_name(ev.paths[i]) = Some(name)

\* the FileEvent the bridge task makes of a kind, None for `_ => continue`
file_event(kind) ==
    CASE kind = "Create" -> Some("Created")
      [] kind = "Modify" -> Some("Modified")
      [] kind = "Remove" -> Some("Deleted")
      [] kind = "Any" -> Some("Modified")
      [] OTHER -> None

\* the watcher is created: nothing has been notified yet
InitBridge ==
    /\ nrx = << >>
    /\ nraised = 0
    /\ handled = << >>

\* the notify backend calls the callback with Ok(event): ntx.send(event)
Callback ==
    /\ nraised < BridgeMaxEvents
    /\ nraised' = nraised + 1
    /\ \E ev \in RawEvents : nrx' = Append(nrx, ev)
    /\ UNCHANGED handled

\* the notify backend calls the callback with Err(error): nothing is sent
CallbackError ==
    /\ nraised < BridgeMaxEvents
    /\ nraised' = nraised + 1
    /\ UNCHANGED <<nrx, handled>>

\* the notify backend calls the callback again and again with the same
\* Ok(event): a burst of one kind of notification
BurstCallback ==
    /\ nraised < BurstMaxEvents
    /\ nraised' = nraised + 1
    /\ \E ev \in RawEvents :
          /\ nrx # << >> => ev = Head(nrx)
          /\ handled # << >> => ev = handled[1].raw
          /\ nrx' = Append(nrx, ev)
    /\ UNCHANGED handled

\* a faulty variant: an event that finds the channel full is thrown away
BridgeStep_DropsWhenFull ==
    /\ nrx # << >>
    /\ LET ev == Head(nrx)
           sent == IF is_target(ev, target_filename) /\ Len(rx) < ChannelCapacity
                   THEN file_event(ev.kind)
                   ELSE None
       IN  /\ nrx' = Tail(nrx)
           /\ handled' = Append(handled, [raw |-> ev, event |-> sent])
           /\ IF sent # None
              THEN /\ raised' = raised + 1
                   /\ rx' = Append(rx, raised + 1)
                   /\ burst' = IF burst = None THEN <<now, now>>
                                ELSE <<burst[1], now>>
              ELSE UNCHANGED <<raised, rx, burst>>
    /\ UNCHANGED <<nraised, now, debounce_ms, last_event_time, closed, wpc, wake,
                   event, wret, emitted, prev_emitted, dropped>>

\* one round of the bridge task's loop: nrx.recv(), the is_target test, the
\* match on the kind and tx.send(file_event).await, which waits while the
\* channel is full
BridgeStep ==
    /\ nrx # << >>
    /\ LET ev == Head(nrx)
           sent == IF is_target(ev, target_filename) THEN file_event(ev.kind)
                   ELSE None
       IN  /\ sent # None => Len(rx) < ChannelCapacity
           /\ nrx' = Tail(nrx)
           /\ handled' = Append(handled, [raw |-> ev, event |-> sent])
           /\ IF sent # None
              THEN /\ raised' = raised + 1
                   /\ rx' = Append(rx, raised + 1)
                   /\ burst' = IF burst = None THEN <<now, now>>
                                ELSE <<burst[1], now>>
              ELSE UNCHANGED <<raised, rx, burst>>
    /\ UNCHANGED <<nraised, now, debounce_ms, last_event_time, closed, wpc, wake,
                   event, wret, emitted, prev_emitted, dropped>>

(***************************************************************************)
(* Errors (src/src/error.rs)                                               *)
(***************************************************************************)
\* a Result<()>: Ok(()) or Err(DmsAwwwError); every value has the same shape
Ok == [kind |-> "Ok", arg |-> << >>, code |-> 0, msgs |-> << >>]
Err(kind, arg, code) == [kind |-> kind, arg |-> arg, code |-> code, msgs |-> << >>]
MultipleErrors(msgs) ==
    [kind |-> "MultipleErrors", arg |-> << >>, code |-> 0, msgs |-> msgs]
IsErr(r) == r.kind # "Ok"

\* Display of DmsAwwwError (the #[error(...)] attributes): every kind prints
\* its arguments, MultipleErrors prints a fixed text without its list
to_string(e) ==
    IF e.kind = "MultipleErrors"
    THEN <<"Multiple errors occurred">>
    ELSE <<e.kind, e.arg, e.code>>

\* a faulty variant: a missing command is recoverable as well
is_recoverable_WithCommandNotFound(e) ==
    e.kind \in {"Io", "CommandFailed", "Timeout", "Watcher", "CommandNotFound"}

\* DmsAwwwError::is_recoverable
is_recoverable(e) == e.kind \in {"Io", "CommandFailed", "Timeout", "Watcher"}

\* the variants of DmsAwwwError that hold no argument of interest
PlainKinds ==
    {"Config", "Io", "Json", "ConfigFile", "NiriIpc", "PathExpansion",
     "MissingConfig", "InvalidConfig", "SessionFileNotFound",
     "SettingsFileNotFound", "NoMonitorsDetected", "PerMonitorParsingError",
     "NotificationError", "Timeout"}

\* the errors with one cause: every variant of DmsAwwwError but MultipleErrors
SingleErrors ==
    {Err(k, << >>, 0) : k \in PlainKinds}
    \cup {Err("CommandNotFound", c, 0) : c \in {"awww", "dms"}}
    \cup {Err("CommandFailed", c, n) : c \in {"awww", "dms matugen"}, n \in {1, -1}}
    \cup {Err("CommandTerminated", c, 0) : c \in {"awww", "dms matugen"}}
    \cup {Err("InvalidWallpaperPath", a, 0) : a \in {<<"/", "a">>, <<"No wallpapers">>}}
    \cup {Err("Watcher", <<m>>, 0) : m \in {"Channel closed", "Invalid file name"}}

\* the messages a MultipleErrors is built from in the errors drawn
ListedErrors ==
    {Err("CommandNotFound", "awww", 0), Err("CommandFailed", "awww", 1),
     Err("SessionFileNotFound", << >>, 0), Err("Io", << >>, 0)}

\* the errors that are classified
ErrorValues ==
    SingleErrors
    \cup {MultipleErrors(<<to_string(a)>>) : a \in ListedErrors}
    \cup {MultipleErrors(<<to_string(a), to_string(b)>>) : a, b \in ListedErrors}

\* no error is classified
NoClassifier ==
    /\ err = Ok
    /\ critical_ret = None
    /\ recoverable_ret = None

(***************************************************************************)
(* Paths and monitors                                                      *)
(***************************************************************************)
\* strings that are inspected by prefix are sequences of characters
PathA == <<"/", "a">>
PathB == <<"/", "b">>
ImagePaths == {PathA, PathB}
EmptyPath == << >>
ColorHash == <<"#", "f">>
ColorSlashHash == <<"/", "#">>
\* the values a path field of the session document takes
PathValues == {EmptyPath, ColorHash, ColorSlashHash} \cup ImagePaths

\* str::starts_with
StartsWith(str, prefix) ==
    /\ Len(str) >= Len(prefix)
    /\ SubSeq(str, 1, Len(prefix)) = prefix

MonitorNames == <<"HDMI-A-1", "DP-1", "eDP-1", "DP-2">>
Monitors == {MonitorNames[i] : i \in 1..NumMonitors}

\* Wallpaper::new and Wallpaper::for_monitor
Wallpaper(path, monitor) == [path |-> path, monitor |-> monitor]

Range(q) == {q[i] : i \in DOMAIN q}

(***************************************************************************)
(* Parallel executor                                                       *)
(***************************************************************************)
\* how an external command can end: exit status 0, a non-zero exit status,
\* termination by a signal, or the command could not be spawned
Outcomes == {"ok", "exit", "signal", "io"}

\* DEFAULT_MATUGEN_SCHEME of the configuration, and another scheme
DEFAULT_MATUGEN_SCHEME == "scheme-tonal-spot"
Schemes == {DEFAULT_MATUGEN_SCHEME, "scheme-vibrant"}

\* the wallpapers a WallpaperChange can hold
Wallpapers ==
    {Wallpaper(p, m) : p \in ImagePaths, m \in {None} \cup {Some(x) : x \in Monitors}}

Changes ==
    {[wallpapers |-> w, is_light_mode |-> l] :
        w \in UNION {[1..n -> Wallpapers] : n \in 1..MaxWallpapers},
        l \in BOOLEAN}

\* a faulty variant: an empty monitor list is used as it is
MonitorsToApply_NoAll(w, ms) ==
    IF w.monitor # None THEN <<w.monitor[1]>> ELSE ms

\* monitors_to_apply of apply_awww
MonitorsToApply(w, ms) ==
    IF w.monitor # None THEN <<w.monitor[1]>>
    ELSE IF ms # << >> THEN ms
    ELSE <<"ALL">>

\* the (path, monitor) pairs apply_awww spawns a task for, in spawn order
RECURSIVE SpawnList(_, _)
SpawnList(ws, ms) ==
    IF ws = << >> THEN << >>
    ELSE LET targets == MonitorsToApply(Head(ws), ms)
         IN  [i \in 1..Len(targets) |->
                 [path |-> Head(ws).path, monitor |-> targets[i],
                  st |-> "spawned", res |-> Ok, invoked |-> FALSE,
                  outcome |-> "none"]]
             \o SpawnList(Tail(ws), ms)

\* the result of a command that ended with outcome o
CommandResult(cmd, o) ==
    CASE o = "ok" -> Ok
      [] o = "exit" -> Err("CommandFailed", cmd, 1)
      [] o = "signal" -> Err("CommandFailed", cmd, -1)
      [] OTHER -> Err("Io", << >>, 0)

\* a faulty variant: the command is run without the existence check
AwwwForMonitor_NoCheck(path, ex, o) == CommandResult("awww", o)

\* apply_awww_for_monitor: the existence check, then the awww command
AwwwForMonitor(path, ex, o) ==
    IF path \notin ex THEN Err("InvalidWallpaperPath", path, 0)
    ELSE CommandResult("awww", o)

\* a faulty variant: the join loop gives up at the first error
JoinLoopDone_FailFast(ts, errs) ==
    errs # << >> \/ \A i \in DOMAIN ts : ts[i].st = "joined"

\* the join loop of apply_awww ends when join_next() yields None: the set
\* holds no task that has not been joined
JoinLoopDone(ts, errs) == \A i \in DOMAIN ts : ts[i].st = "joined"

\* what apply_awww returns after the join loop
AwwwResult(errs) == IF errs # << >> THEN MultipleErrors(errs) ELSE Ok

\* a faulty variant: a combinator that completes with the first of the two futures
JoinComplete_Either(a, m) == a = "done" \/ m = "done"

\* tokio::join! completes when both futures have completed
JoinComplete(a, m) == a = "done" /\ m = "done"

\* a faulty variant: any failure is wrapped in a MultipleErrors
Aggregate_AlwaysList(ar, mr) ==
    LET results == (IF IsErr(ar) THEN <<ar>> ELSE << >>)
                   \o (IF IsErr(mr) THEN <<mr>> ELSE << >>)
    IN  IF results = << >> THEN Ok
        ELSE MultipleErrors([i \in 1..Len(results) |-> to_string(results[i])])

\* the result aggregation of apply_wallpaper
Aggregate(ar, mr) ==
    LET results == (IF IsErr(ar) THEN <<ar>> ELSE << >>)
                   \o (IF IsErr(mr) THEN <<mr>> ELSE << >>)
    IN  IF results = << >> THEN Ok
        ELSE IF Len(results) = 1 THEN results[1]
        ELSE MultipleErrors([i \in 1..Len(results) |-> to_string(results[i])])

\* a faulty variant: the theme is generated from the last wallpaper
MatugenArgs_LastWallpaper(c, cfg) ==
    [value |-> c.wallpapers[Len(c.wallpapers)].path,
     mode |-> IF c.is_light_mode THEN "light" ELSE "dark",
     matugen_type |-> cfg.default_scheme,
     outcome |-> "none"]

\* a faulty variant: the scheme the settings document names is passed on
MatugenArgs_SettingsScheme(c, cfg) ==
    [value |-> c.wallpapers[1].path,
     mode |-> IF c.is_light_mode THEN "light" ELSE "dark",
     matugen_type |-> IF settings.kind = "doc" /\ settings.matugenScheme # << >>
                      THEN settings.matugenScheme[1]
                      ELSE cfg.default_scheme,
     outcome |-> "none"]

\* the arguments of the dms matugen queue command: --value, --mode and
\* --matugen-type (outcome: how the command ended, "none" while it runs)
MatugenArgs(c, cfg) ==
    [value |-> c.wallpapers[1].path,
     mode |-> IF c.is_light_mode THEN "light" ELSE "dark",
     matugen_type |-> cfg.default_scheme,
     outcome |-> "none"]

\* Executor::new
InitExecutor ==
    /\ config \in [awww_enabled : BOOLEAN, matugen_enabled : BOOLEAN,
                    default_scheme : {DEFAULT_MATUGEN_SCHEME}]
    /\ monitors \in {SubSeq(MonitorNames, 1, k) : k \in 0..NumMonitors}
    /\ exists \in SUBSET ImagePaths
    /\ epc = "idle"
    /\ apc = "start"
    /\ mpc = "start"
    /\ tasks = << >>
    /\ errors = << >>
    /\ awww_result = Ok
    /\ matugen_result = Ok
    /\ matugen_calls = << >>
    /\ apply_result = None

\* apply_wallpaper is called: both futures of tokio::join! start
ApplyWallpaper ==
    /\ epc = "idle"
    /\ epc' = "join"
    /\ apc' = "start"
    /\ mpc' = "start"
    /\ apply_result' = None
    /\ UNCHANGED <<config, monitors, exists, change, tasks, errors,
                   awww_result, matugen_result, matugen_calls>>

\* apply_awww up to its join loop: return at once when disabled, else spawn
\* one task per (wallpaper, monitor) pair
AwwwStart ==
    /\ epc = "join"
    /\ apc = "start"
    /\ IF ~config.awww_enabled
       THEN /\ awww_result' = Ok
            /\ apc' = "done"
            /\ UNCHANGED <<tasks, errors>>
       ELSE /\ tasks' = SpawnList(change.wallpapers, monitors)
            /\ errors' = << >>
            /\ apc' = "joining"
            /\ UNCHANGED awww_result
    /\ UNCHANGED <<config, monitors, exists, change, epc, mpc,
                   matugen_result, matugen_calls, apply_result>>

\* a spawned task runs apply_awww_for_monitor to its end and
\* tasks.join_next().await yields it: its error, if any, is kept
\* (invoked: the awww command was run; outcome: how it ended)
TaskRun(i) ==
    /\ tasks[i].st = "spawned"
    /\ \E o \in Outcomes :
          LET res == AwwwForMonitor(tasks[i].path, exists, o)
          IN  /\ tasks' = [tasks EXCEPT ![i].st = "joined",
                                         ![i].res = res,
                                         ![i].invoked = tasks[i].path \in exists,
                                         ![i].outcome =
                                             IF tasks[i].path \in exists THEN o
                                             ELSE "none"]
              /\ errors' = IF IsErr(res) THEN Append(errors, to_string(res))
                           ELSE errors
    /\ UNCHANGED <<config, monitors, exists, change, epc, apc, mpc,
                   awww_result, matugen_result, matugen_calls, apply_result>>

\* the join loop is over: apply_awww returns and the JoinSet is dropped,
\* which aborts whatever task it still holds
AwwwReturn ==
    /\ apc = "joining"
    /\ JoinLoopDone(tasks, errors)
    /\ awww_result' = AwwwResult(errors)
    /\ apc' = "done"
    /\ tasks' = [i \in DOMAIN tasks |->
                    IF tasks[i].st = "joined" THEN tasks[i]
                    ELSE [tasks[i] EXCEPT !.st = "aborted"]]
    /\ UNCHANGED <<config, monitors, exists, change, epc, mpc, errors,
                   matugen_result, matugen_calls, apply_result>>

\* apply_matugen up to the dms command: return at once when disabled or when
\* the first wallpaper's file is missing, else start the command
MatugenStart ==
    /\ epc = "join"
    /\ mpc = "start"
    /\ IF ~config.matugen_enabled
       THEN matugen_result' = Ok /\ mpc' = "done"
       ELSE IF change.wallpapers = << >>
       THEN /\ matugen_result' = Err("InvalidWallpaperPath", <<"No wallpapers">>, 0)
            /\ mpc' = "done"
       ELSE IF change.wallpapers[1].path \notin exists
       THEN /\ matugen_result' = Err("InvalidWallpaperPath", change.wallpapers[1].path, 0)
            /\ mpc' = "done"
       ELSE matugen_result' = Ok /\ mpc' = "running"
    /\ matugen_calls' = IF mpc' = "running"
                        THEN Append(matugen_calls, MatugenArgs(change, config))
                        ELSE matugen_calls
    /\ UNCHANGED <<config, monitors, exists, change, epc, apc, tasks, errors,
                   awww_result, apply_result>>

\* the dms matugen command ends
MatugenExit ==
    /\ mpc = "running"
    /\ \E o \in Outcomes :
          /\ matugen_result' = CommandResult("dms matugen", o)
          /\ matugen_calls' = [matugen_calls EXCEPT ![Len(matugen_calls)].outcome = o]
    /\ mpc' = "done"
    /\ UNCHANGED <<config, monitors, exists, change, epc, apc, tasks, errors,
                   awww_result, apply_result>>

\* both futures have completed: apply_wallpaper aggregates and returns
ApplyReturn ==
    /\ epc = "join"
    /\ JoinComplete(apc, mpc)
    /\ apply_result' = Some(Aggregate(awww_result, matugen_result))
    /\ epc' = "returned"
    /\ UNCHANGED <<config, monitors, exists, change, apc, mpc, tasks, errors,
                   awww_result, matugen_result, matugen_calls>>

\* no executor takes part
NoExecutor ==
    /\ config = [awww_enabled |-> FALSE, matugen_enabled |-> FALSE,
                 default_scheme |-> DEFAULT_MATUGEN_SCHEME]
    /\ monitors = << >>
    /\ exists = {}
    /\ change = [wallpapers |-> << >>, is_light_mode |-> FALSE]
    /\ epc = "idle"
    /\ apc = "start"
    /\ mpc = "start"
    /\ tasks = << >>
    /\ errors = << >>
    /\ awww_result = Ok
    /\ matugen_result = Ok
    /\ matugen_calls = << >>
    /\ apply_result = None

\* no watcher takes part
NoWatcher ==
    /\ now = 0
    /\ debounce_ms = 0
    /\ last_event_time = None
    /\ rx = << >>
    /\ closed = FALSE
    /\ wpc = "idle"
    /\ wake = 0
    /\ event = None
    /\ wret = "none"
    /\ raised = 0
    /\ burst = None
    /\ emitted = << >>
    /\ prev_emitted = None
    /\ dropped = {}

\* the commands check_dependencies looks for
Tools == {"awww", "dms"}

\* no notification bridge takes part
NoBridge ==
    /\ nrx = << >>
    /\ nraised = 0
    /\ handled = << >>

(***************************************************************************)
(* Theme settings (src/src/dms/mod.rs)                                     *)
(***************************************************************************)
\* the settings file: absent, unreadable, not JSON, or a document with its
\* matugenScheme, a SettingsJson
SettingsFile(kind, scheme) == [kind |-> kind, matugenScheme |-> scheme]
AbsentSettings == SettingsFile("absent", None)
UnreadableSettings == SettingsFile("unreadable", None)
MalformedSettings == SettingsFile("malformed", None)
SettingsFiles ==
    {AbsentSettings, UnreadableSettings, MalformedSettings}
    \cup {SettingsFile("doc", sch) : sch \in {None} \cup {Some(x) : x \in Schemes}}

\* no settings file is written and get_matugen_scheme is not called
NoSettings ==
    /\ settings = AbsentSettings
    /\ scheme_ret = None

(***************************************************************************)
(* Session differ (src/src/dms/mod.rs)                                     *)
(***************************************************************************)
\* a parsed session.json: SessionJson
Docs ==
    [wallpaperPath : {None} \cup {Some(v) : v \in PathValues},
     perMonitorWallpaper : {None, Some(TRUE), Some(FALSE)},
     monitorWallpapers : UNION {[ms -> PathValues] : ms \in SUBSET Monitors},
     isLightMode : {None, Some(TRUE), Some(FALSE)}]

\* the document {}
EmptyDoc ==
    [wallpaperPath |-> None, perMonitorWallpaper |-> None,
     monitorWallpapers |-> << >>, isLightMode |-> None]

\* the session file: absent, unreadable, not JSON, or a document
File(kind, doc) == [kind |-> kind, doc |-> doc]
AbsentFile == File("absent", EmptyDoc)
UnreadableFile == File("unreadable", EmptyDoc)
MalformedFile == File("malformed", EmptyDoc)

\* Option::unwrap_or
UnwrapOr(opt, default) == IF opt = None THEN default ELSE opt[1]

\* a faulty variant: only the '#' prefix marks a color
is_valid_image_HashOnly(w) == ~StartsWith(w.path, <<"#">>)

\* Wallpaper::is_valid_image
is_valid_image(w) ==
    ~StartsWith(w.path, <<"#">>) /\ ~StartsWith(w.path, <<"/", "#">>)

\* the orders in which a HashMap with key set ks may be iterated: each
\* map deserialized from the file has its own RandomState
IterationOrders(ks) ==
    {o \in [1..Cardinality(ks) -> ks] : Range(o) = ks}

\* DmsSession::read_session
read_session(file) ==
    CASE file.kind = "absent" -> Err("SessionFileNotFound", <<"session.json">>, 0)
      [] file.kind = "unreadable" -> Err("Io", << >>, 0)
      [] file.kind = "malformed" -> Err("Json", << >>, 0)
      [] OTHER -> Ok

\* DmsSession::read_settings: [res, matugen_scheme]
read_settings(sfile) ==
    [res |-> CASE sfile.kind = "absent" ->
                      Err("SettingsFileNotFound", <<"settings.json">>, 0)
               [] sfile.kind = "unreadable" -> Err("Io", << >>, 0)
               [] sfile.kind = "malformed" -> Err("Json", << >>, 0)
               [] OTHER -> Ok,
     matugen_scheme |-> sfile.matugenScheme]

\* DmsSession::get_matugen_scheme
get_matugen_scheme(sfile, cfg) ==
    LET read == read_settings(sfile)
    IN  IF IsErr(read.res) THEN cfg.default_scheme
        ELSE UnwrapOr(read.matugen_scheme, cfg.default_scheme)

\* a faulty variant: the per-monitor map is used whatever the flag says
CollectWallpapers_IgnoreFlag(doc, order) ==
    LET per == SelectSeq(
                [i \in 1..Len(order) |->
                    Wallpaper(doc.monitorWallpapers[order[i]], Some(order[i]))],
                LAMBDA w : w.path # EmptyPath)
        main == IF doc.wallpaperPath = None THEN << >>
                ELSE <<Wallpaper(doc.wallpaperPath[1], None)>>
    IN  IF per = << >> THEN main ELSE per

\* a faulty variant: per-monitor mode never falls back to wallpaperPath
CollectWallpapers_NoFallback(doc, order) ==
    LET per == SelectSeq(
                [i \in 1..Len(order) |->
                    Wallpaper(doc.monitorWallpapers[order[i]], Some(order[i]))],
                LAMBDA w : w.path # EmptyPath)
        main == IF doc.wallpaperPath = None THEN << >>
                ELSE <<Wallpaper(doc.wallpaperPath[1], None)>>
    IN  IF UnwrapOr(doc.perMonitorWallpaper, FALSE) THEN per ELSE main

\* a faulty variant: per-monitor mode falls back to wallpaperPath when no
\* per-monitor value is an image path
CollectWallpapers_FallbackOnColors(doc, order) ==
    LET per == SelectSeq(
                [i \in 1..Len(order) |->
                    Wallpaper(doc.monitorWallpapers[order[i]], Some(order[i]))],
                LAMBDA w : w.path # EmptyPath /\ is_valid_image(w))
        main == IF doc.wallpaperPath = None THEN << >>
                ELSE <<Wallpaper(doc.wallpaperPath[1], None)>>
    IN  IF UnwrapOr(doc.perMonitorWallpaper, FALSE)
        THEN IF per = << >> THEN main ELSE per
        ELSE main

\* the wallpapers get_current_state collects before filtering, with the
\* monitorWallpapers map iterated in the order `order`
CollectWallpapers(doc, order) ==
    LET per == SelectSeq(
                [i \in 1..Len(order) |->
                    Wallpaper(doc.monitorWallpapers[order[i]], Some(order[i]))],
                LAMBDA w : w.path # EmptyPath)
        main == IF doc.wallpaperPath = None THEN << >>
                ELSE <<Wallpaper(doc.wallpaperPath[1], None)>>
    IN  IF UnwrapOr(doc.perMonitorWallpaper, FALSE)
        THEN IF per = << >> THEN main ELSE per
        ELSE main

\* a faulty variant: a list left empty by the filter is returned as a change
get_current_state_EmptyOk(file, sfile, cfg, order) ==
    LET read == read_session(file)
        wallpapers == SelectSeq(CollectWallpapers(file.doc, order),
                          LAMBDA w : is_valid_image(w) /\ w.path # EmptyPath)
    IN  IF IsErr(read)
        THEN [res |-> read, wallpapers |-> << >>, is_light_mode |-> FALSE]
        ELSE [res |-> Ok, wallpapers |-> wallpapers,
              is_light_mode |-> UnwrapOr(file.doc.isLightMode, FALSE)]

\* a faulty variant: a failed read of the settings is returned with `?`
get_current_state_SettingsRequired(file, sfile, cfg, order) ==
    LET read == read_session(file)
        settings_read == read_settings(sfile)
        wallpapers == SelectSeq(CollectWallpapers(file.doc, order),
                          LAMBDA w : is_valid_image(w) /\ w.path # EmptyPath)
    IN  IF IsErr(read)
        THEN [res |-> read, wallpapers |-> << >>, is_light_mode |-> FALSE]
        ELSE IF IsErr(settings_read.res)
        THEN [res |-> settings_read.res, wallpapers |-> << >>,
              is_light_mode |-> FALSE]
        ELSE IF wallpapers = << >>
        THEN [res |-> Err("InvalidWallpaperPath",
                          <<"No valid wallpapers found in session">>, 0),
              wallpapers |-> << >>, is_light_mode |-> FALSE]
        ELSE [res |-> Ok, wallpapers |-> wallpapers,
              is_light_mode |-> UnwrapOr(file.doc.isLightMode, FALSE)]

\* DmsSession::get_current_state: [res, wallpapers, is_light_mode]. The
\* settings are read with .ok(), so a failed read is None, and the scheme
\* worked out of them (_matugen_scheme) is not used.
get_current_state(file, sfile, cfg, order) ==
    LET read == read_session(file)
        settings_read == read_settings(sfile)
        matugen_scheme == IF IsErr(settings_read.res) THEN cfg.default_scheme
                          ELSE UnwrapOr(settings_read.matugen_scheme,
                                        cfg.default_scheme)
        wallpapers == SelectSeq(CollectWallpapers(file.doc, order),
                          LAMBDA w : is_valid_image(w) /\ w.path # EmptyPath)
    IN  IF IsErr(read)
        THEN [res |-> read, wallpapers |-> << >>, is_light_mode |-> FALSE]
        ELSE IF wallpapers = << >>
        THEN [res |-> Err("InvalidWallpaperPath",
                          <<"No valid wallpapers found in session">>, 0),
              wallpapers |-> << >>, is_light_mode |-> FALSE]
        ELSE [res |-> Ok, wallpapers |-> wallpapers,
              is_light_mode |-> UnwrapOr(file.doc.isLightMode, FALSE)]

\* current_paths of has_changed
CurrentPaths(state) == [i \in 1..Len(state.wallpapers) |-> state.wallpapers[i].path]

\* a faulty variant: only the number of paths is compared
PathsDiffer_ByLength(current_paths, last) == Len(current_paths) # Len(last)

\* let has_changed = current_paths != self.last_wallpapers
PathsDiffer(current_paths, last) == current_paths # last

\* a faulty variant: a failed read clears the fingerprint
NextFingerprint_ClearOnError(state, last) ==
    IF IsErr(state.res) THEN << >>
    ELSE IF PathsDiffer(CurrentPaths(state), last) THEN CurrentPaths(state)
    ELSE last

\* last_wallpapers after has_changed: untouched by the `?` return of a
\* failed read, replaced when the paths differ
NextFingerprint(state, last) ==
    IF IsErr(state.res) THEN last
    ELSE IF PathsDiffer(CurrentPaths(state), last) THEN CurrentPaths(state)
    ELSE last

\* a Result<bool>, or no call having returned
NoRet == [kind |-> "none", changed |-> FALSE, err |-> "none"]
RetOk(b) == [kind |-> "ok", changed |-> b, err |-> "none"]
RetErr(e) == [kind |-> "err", changed |-> FALSE, err |-> e.kind]

\* what has_changed returns: the read's error or Ok(has_changed)
HasChangedResult(state, last) ==
    IF IsErr(state.res) THEN RetErr(state.res)
    ELSE RetOk(PathsDiffer(CurrentPaths(state), last))

\* DmsSession::new, and the session file not yet written
InitSession ==
    /\ session = AbsentFile
    /\ last_wallpapers = << >>
    /\ hret = NoRet
    /\ hbefore = << >>
    /\ hrepeat = FALSE
    /\ observed = << >>
    /\ observed_before = << >>
    /\ rstate = None

\* DmsSession::has_changed
HasChanged ==
    /\ session.kind = "doc"
    /\ \E order \in IterationOrders(DOMAIN session.doc.monitorWallpapers) :
          LET state == get_current_state(session, settings, config, order)
          IN  /\ last_wallpapers' = NextFingerprint(state, last_wallpapers)
              /\ hret' = HasChangedResult(state, last_wallpapers)
              /\ observed' = IF IsErr(state.res) THEN observed
                             ELSE CurrentPaths(state)
    /\ hbefore' = last_wallpapers
    /\ observed_before' = observed
    /\ hrepeat' = (hret.kind = "ok")
    /\ UNCHANGED <<session, rstate>>

\* DmsSession::has_changed when the file cannot be read as a document
HasChangedNoDoc ==
    /\ session.kind # "doc"
    /\ LET state == get_current_state(session, settings, config, << >>)
       IN  /\ last_wallpapers' = NextFingerprint(state, last_wallpapers)
           /\ hret' = HasChangedResult(state, last_wallpapers)
           /\ observed' = IF IsErr(state.res) THEN observed
                          ELSE CurrentPaths(state)
    /\ hbefore' = last_wallpapers
    /\ observed_before' = observed
    /\ hrepeat' = (hret.kind = "ok")
    /\ UNCHANGED <<session, rstate>>

\* DmsSession::get_matugen_scheme is called on the settings file as it is
GetMatugenScheme ==
    /\ scheme_ret' = Some(get_matugen_scheme(settings, config))
    /\ UNCHANGED settings

\* the shell (or the user) rewrites, removes or damages the settings file
WriteSettings ==
    /\ \E f \in SettingsFiles :
          /\ f # settings
          /\ settings' = f
    /\ scheme_ret' = None
    /\ rstate' = None
    /\ UNCHANGED <<session, last_wallpapers, hret, hbefore, hrepeat, observed,
                   observed_before>>

\* DmsSession::get_current_state is called on the file as it is
ReadState ==
    /\ \E order \in IterationOrders(DOMAIN session.doc.monitorWallpapers) :
          rstate' = Some(get_current_state(session, settings, config, order))
    /\ UNCHANGED <<session, last_wallpapers, hret, hbefore, hrepeat, observed,
                   observed_before>>

\* the documents one rewrite of the session file by the shell can lead to:
\* one field of the document changes
Rewrites(doc) ==
    {[doc EXCEPT !.wallpaperPath = v] : v \in {None} \cup {Some(x) : x \in PathValues}}
    \cup {[doc EXCEPT !.perMonitorWallpaper = v] : v \in {None, Some(TRUE), Some(FALSE)}}
    \cup {[doc EXCEPT !.isLightMode = v] : v \in {None, Some(TRUE), Some(FALSE)}}
    \cup {[doc EXCEPT !.monitorWallpapers =
               [k \in DOMAIN doc.monitorWallpapers \cup {m} |->
                   IF k = m THEN v ELSE doc.monitorWallpapers[k]]] :
            m \in Monitors, v \in PathValues}
    \cup {[doc EXCEPT !.monitorWallpapers =
               [k \in DOMAIN doc.monitorWallpapers \ {m} |-> doc.monitorWallpapers[k]]] :
            m \in Monitors}

\* the shell (or the user) rewrites, removes or damages the session file
WriteSession ==
    /\ \E f \in {AbsentFile, UnreadableFile, MalformedFile}
               \cup {File("doc", d) : d \in Rewrites(session.doc)} :
          /\ f # session
          /\ session' = f
    /\ hret' = NoRet
    /\ hbefore' = << >>
    /\ hrepeat' = FALSE
    /\ observed_before' = << >>
    /\ rstate' = None
    /\ UNCHANGED <<last_wallpapers, observed>>

\* the shell moves the wallpaper of one monitor to a monitor that has none
MoveWallpaper ==
    /\ session.kind = "doc"
    /\ \E m \in DOMAIN session.doc.monitorWallpapers,
          n \in Monitors \ DOMAIN session.doc.monitorWallpapers :
          session' = File("doc",
              [session.doc EXCEPT !.monitorWallpapers =
                  [k \in (DOMAIN session.doc.monitorWallpapers \ {m}) \cup {n} |->
                      IF k = n THEN session.doc.monitorWallpapers[m]
                      ELSE session.doc.monitorWallpapers[k]]])
    /\ hret' = NoRet
    /\ hbefore' = << >>
    /\ hrepeat' = FALSE
    /\ observed_before' = << >>
    /\ rstate' = None
    /\ UNCHANGED <<last_wallpapers, observed>>

\* the rewrite from file f to file g left every field but isLightMode alone
OnlyLightModeRewritten(f, g) ==
    /\ f.kind = "doc"
    /\ g.kind = "doc"
    /\ g.doc = [f.doc EXCEPT !.isLightMode = g.doc.isLightMode]

\* the rewrite from file f to file g moved one wallpaper to another monitor
OnlyMonitorRewritten(f, g) ==
    /\ f.kind = "doc"
    /\ g.kind = "doc"
    /\ g.doc = [f.doc EXCEPT !.monitorWallpapers = g.doc.monitorWallpapers]
    /\ \E m \in DOMAIN f.doc.monitorWallpapers,
          n \in Monitors \ DOMAIN f.doc.monitorWallpapers :
          /\ DOMAIN g.doc.monitorWallpapers =
                 (DOMAIN f.doc.monitorWallpapers \ {m}) \cup {n}
          /\ g.doc.monitorWallpapers[n] = f.doc.monitorWallpapers[m]
          /\ \A k \in DOMAIN f.doc.monitorWallpapers \ {m} :
                 g.doc.monitorWallpapers[k] = f.doc.monitorWallpapers[k]

\* the record of a has_changed call: a successful call starts it afresh
TrackCall == since' = IF hret'.kind = "ok" THEN "fresh" ELSE "none"

\* the record of a rewrite: "cosmetic" while every rewrite since the last
\* successful call changed isLightMode alone or moved one wallpaper
TrackWrite ==
    since' = IF /\ since \in {"fresh", "cosmetic"}
                /\ \/ OnlyLightModeRewritten(session, session')
                   \/ OnlyMonitorRewritten(session, session')
             THEN "cosmetic"
             ELSE "none"

\* no session differ takes part
NoSession ==
    /\ session = AbsentFile
    /\ last_wallpapers = << >>
    /\ hret = NoRet
    /\ hbefore = << >>
    /\ hrepeat = FALSE
    /\ observed = << >>
    /\ observed_before = << >>
    /\ rstate = None

(***************************************************************************)
(* Monitor resolution (src/src/niri/mod.rs)                                *)
(***************************************************************************)
\* a NiriOutput: its name and whether it is enabled
NiriOutputs ==
    UNION {[1..n -> [name : Monitors, enabled : BOOLEAN]] : n \in 0..MaxOutputs}

\* the compositor as the niri command finds it: the binary can be spawned,
\* the compositor answers, plain `niri msg outputs` prints JSON or text
NiriEnvs ==
    [installed : BOOLEAN, running : BOOLEAN, format : {"json", "text"},
     outputs : NiriOutputs]

\* no compositor takes part
NoNiri ==
    [installed |-> FALSE, running |-> FALSE, format |-> "json", outputs |-> << >>]

\* the bytes a command printed: a JSON array of outputs, lines of text, or
\* nothing
Stdout(kind, outputs, lines) == [kind |-> kind, outputs |-> outputs, lines |-> lines]
EmptyStdout == Stdout("empty", << >>, << >>)

\* a line of the text format: an `Output ` line with the name found in its
\* parentheses (if any), a bare `Disabled` line, or another line
OutputLine(name) == [kind |-> "output", name |-> name]
DisabledLine == [kind |-> "disabled", name |-> None]
OtherLine == [kind |-> "other", name |-> None]

\* the text niri prints for its outputs: a header line per output, followed
\* by `Disabled` or by the current mode
TextLines(outputs) ==
    [k \in 1..(2 * Len(outputs)) |->
        LET o == outputs[(k + 1) \div 2]
        IN  IF k % 2 = 1 THEN OutputLine(Some(o.name))
            ELSE IF o.enabled THEN OtherLine ELSE DisabledLine]

\* what a spawned command gave: [spawned, success, stdout]
CommandOutput(spawned, success, stdout) ==
    [spawned |-> spawned, success |-> success, stdout |-> stdout]

\* `niri msg outputs`
NiriMsgOutputs(env) ==
    IF ~env.installed THEN CommandOutput(FALSE, FALSE, EmptyStdout)
    ELSE IF ~env.running THEN CommandOutput(TRUE, FALSE, EmptyStdout)
    ELSE IF env.format = "json"
    THEN CommandOutput(TRUE, TRUE, Stdout("json", env.outputs, << >>))
    ELSE CommandOutput(TRUE, TRUE, Stdout("text", << >>, TextLines(env.outputs)))

\* `niri msg outputs -j`
NiriMsgOutputsJson(env) ==
    IF ~env.installed THEN CommandOutput(FALSE, FALSE, EmptyStdout)
    ELSE IF ~env.running THEN CommandOutput(TRUE, FALSE, EmptyStdout)
    ELSE CommandOutput(TRUE, TRUE, Stdout("json", env.outputs, << >>))

\* a Result<Vec<String>> with the number of commands run to get it
Resolved(res, outputs, queries) ==
    [res |-> res, outputs |-> outputs, queries |-> queries]

\* the names of the enabled outputs of a deserialized Vec<NiriOutput>
EnabledNames(outputs) ==
    LET enabled == SelectSeq(outputs, LAMBDA o : o.enabled)
    IN  [i \in 1..Len(enabled) |-> enabled[i].name]

\* parse_niri_outputs: [res, outputs]
parse_niri_outputs(stdout) ==
    IF stdout.kind # "json" THEN [res |-> Err("Json", << >>, 0), outputs |-> << >>]
    ELSE IF EnabledNames(stdout.outputs) = << >>
    THEN [res |-> Err("NoMonitorsDetected", << >>, 0), outputs |-> << >>]
    ELSE [res |-> Ok, outputs |-> EnabledNames(stdout.outputs)]

\* the loop of parse_niri_outputs_text over the remaining lines
RECURSIVE TextLoop(_, _, _, _)
TextLoop(lines, outputs, current_name, is_disabled) ==
    LET saved == IF current_name # None /\ ~is_disabled
                 THEN Append(outputs, current_name[1])
                 ELSE outputs
    IN  IF lines = << >> THEN saved
        ELSE IF Head(lines).kind = "output"
        THEN IF Head(lines).name # None
             THEN TextLoop(Tail(lines), saved, Head(lines).name, FALSE)
             ELSE TextLoop(Tail(lines), saved, current_name, is_disabled)
        ELSE IF Head(lines).kind = "disabled"
        THEN TextLoop(Tail(lines), outputs, current_name, TRUE)
        ELSE TextLoop(Tail(lines), outputs, current_name, is_disabled)

\* parse_niri_outputs_text: [res, outputs]; bytes that are not in the text
\* format hold no `Output ` line
parse_niri_outputs_text(stdout) ==
    LET outputs == TextLoop(stdout.lines, << >>, None, FALSE)
    IN  IF outputs = << >>
        THEN [res |-> Err("NoMonitorsDetected", << >>, 0), outputs |-> << >>]
        ELSE [res |-> Ok, outputs |-> outputs]

\* a line of printed text is a sequence of pieces: single characters that
\* matter to the parser and runs of other characters
Blank == "  "
RawLines ==
    {<<"Output ", "\"A\" ", "(", "HDMI-A-1", ")">>,
     <<"Output ", "(", "DP-1", ")">>,
     <<"Output ", "\"B\"">>,
     <<"Output ", "\"C ", "(", "rev2", ")", "\" ", "(", "DP-2", ")">>,
     <<Blank, "Disabled">>,
     <<Blank, "Current mode">>,
     <<Blank, "Output ", "(", "eDP-1", ")">>}

\* the texts given to the parser
Texts == UNION {[1..n -> RawLines] : n \in 0..MaxLines}

\* str::find from position `from`: the first position of the piece, 0 for None
RECURSIVE Find(_, _, _)
Find(line, piece, from) ==
    IF from > Len(line) THEN 0
    ELSE IF line[from] = piece THEN from
    ELSE Find(line, piece, from + 1)

\* str::trim
RECURSIVE Trim(_)
Trim(line) ==
    IF line = << >> THEN line
    ELSE IF Head(line) = Blank THEN Trim(Tail(line))
    ELSE IF line[Len(line)] = Blank THEN Trim(SubSeq(line, 1, Len(line) - 1))
    ELSE line

\* the branch the loop of parse_niri_outputs_text takes for a line:
\* strip_prefix("Output ") and the text between the first `(` and the first
\* `)` after it, else the comparison of the trimmed line with "Disabled"
ParseLine(line) ==
    IF line # << >> /\ Head(line) = "Output "
    THEN LET rest == Tail(line)
             start == Find(rest, "(", 1)
             end == IF start = 0 THEN 0 ELSE Find(rest, ")", start)
         IN  IF start # 0 /\ end # 0
             THEN OutputLine(Some(SubSeq(rest, start + 1, end - 1)))
             ELSE OutputLine(None)
    ELSE IF Trim(line) = <<"Disabled">> THEN DisabledLine
    ELSE OtherLine

\* text.lines() as the loop sees them
ParseLines(t) == [k \in DOMAIN t |-> ParseLine(t[k])]

\* the text parser is called on the printed text
ParseText ==
    /\ pres = None
    /\ pres' = Some(parse_niri_outputs_text(Stdout("text", << >>, ParseLines(stdout_text))))
    /\ UNCHANGED <<explicit_outputs, auto_detect, niri, mres, stdout_text>>

\* a text has been printed and is not parsed yet
InitParser ==
    /\ explicit_outputs = << >>
    /\ auto_detect = FALSE
    /\ niri = NoNiri
    /\ mres = None
    /\ stdout_text \in Texts
    /\ pres = None

\* NiriClient::detect_outputs
detect_outputs(env) ==
    LET first == NiriMsgOutputs(env)
        json == parse_niri_outputs(first.stdout)
        text == parse_niri_outputs_text(first.stdout)
        second == NiriMsgOutputsJson(env)
        legacy == parse_niri_outputs(second.stdout)
    IN  IF first.spawned /\ ~IsErr(json.res) THEN Resolved(Ok, json.outputs, 1)
        ELSE IF first.spawned /\ ~IsErr(text.res) THEN Resolved(Ok, text.outputs, 1)
        ELSE IF ~second.spawned THEN Resolved(Err("Io", << >>, 0), << >>, 2)
        ELSE IF ~second.success
        THEN Resolved(Err("NiriIpc", <<"niri msg outputs failed">>, 0), << >>, 2)
        ELSE Resolved(legacy.res, legacy.outputs, 2)

\* a faulty variant: detection comes before the explicit list
get_monitor_outputs_DetectFirst(explicit, auto, env) ==
    IF auto
    THEN IF IsErr(detect_outputs(env).res)
         THEN Resolved(Ok, <<"ALL">>, detect_outputs(env).queries)
         ELSE detect_outputs(env)
    ELSE IF explicit # << >> THEN Resolved(Ok, explicit, 0)
    ELSE Resolved(Err("NoMonitorsDetected", << >>, 0), << >>, 0)

\* a faulty variant: a failed detection is returned to the caller
get_monitor_outputs_NoFallback(explicit, auto, env) ==
    IF explicit # << >> THEN Resolved(Ok, explicit, 0)
    ELSE IF auto THEN detect_outputs(env)
    ELSE Resolved(Err("NoMonitorsDetected", << >>, 0), << >>, 0)

\* niri::get_monitor_outputs
get_monitor_outputs(explicit, auto, env) ==
    IF explicit # << >> THEN Resolved(Ok, explicit, 0)
    ELSE IF auto
    THEN IF IsErr(detect_outputs(env).res)
         THEN Resolved(Ok, <<"ALL">>, detect_outputs(env).queries)
         ELSE detect_outputs(env)
    ELSE Resolved(Err("NoMonitorsDetected", << >>, 0), << >>, 0)

\* the monitors of run(): get_monitor_outputs is called only when
\* auto_detect_monitors is set, else the explicit list is taken as it is
RunMonitors(explicit, auto, env) ==
    IF auto THEN get_monitor_outputs(explicit, TRUE, env)
    ELSE Resolved(Ok, explicit, 0)

\* the inputs of a resolution, none made yet
InitMonitors ==
    /\ explicit_outputs \in UNION {[1..n -> Monitors] : n \in 0..MaxExplicit}
    /\ auto_detect \in BOOLEAN
    /\ niri \in NiriEnvs
    /\ mres = None
    /\ stdout_text = << >>
    /\ pres = None

\* a caller calls niri::get_monitor_outputs with the inputs
GetMonitorOutputs ==
    /\ mres' = Some([via |-> "get_monitor_outputs",
                     ret |-> get_monitor_outputs(explicit_outputs, auto_detect, niri)])
    /\ UNCHANGED <<explicit_outputs, auto_detect, niri, stdout_text, pres>>

\* run() resolves its monitors from the inputs
RunResolve ==
    /\ mres' = Some([via |-> "run",
                     ret |-> RunMonitors(explicit_outputs, auto_detect, niri)])
    /\ UNCHANGED <<explicit_outputs, auto_detect, niri, stdout_text, pres>>

\* no monitor resolution takes part
NoMonitors ==
    /\ explicit_outputs = << >>
    /\ auto_detect = FALSE
    /\ niri = NoNiri
    /\ mres = None
    /\ stdout_text = << >>
    /\ pres = None

(***************************************************************************)
(* Daemon loop (src/src/main.rs)                                           *)
(***************************************************************************)
\* a faulty variant: a missing session file is not critical
is_critical_NotSessionFile(e) ==
    e.kind \in {"Config", "CommandNotFound", "NoMonitorsDetected"}

\* DmsAwwwError::is_critical
is_critical(e) ==
    e.kind \in {"Config", "CommandNotFound", "SessionFileNotFound",
                "NoMonitorsDetected"}

\* an error to classify has been drawn
InitClassifier ==
    /\ err \in ErrorValues
    /\ critical_ret = None
    /\ recoverable_ret = None

\* a caller asks is_critical of the error
IsCritical ==
    /\ critical_ret' = Some(is_critical(err))
    /\ UNCHANGED <<err, recoverable_ret>>

\* a caller asks is_recoverable of the error
IsRecoverable ==
    /\ recoverable_ret' = Some(is_recoverable(err))
    /\ UNCHANGED <<err, critical_ret>>

\* the session files the shell writes while the daemon runs
DaemonFiles ==
    {AbsentFile,
     File("doc", [EmptyDoc EXCEPT !.wallpaperPath = Some(PathA)]),
     File("doc", [EmptyDoc EXCEPT !.wallpaperPath = Some(ColorHash)]),
     File("doc", [EmptyDoc EXCEPT !.perMonitorWallpaper = Some(TRUE),
                                  !.isLightMode = Some(TRUE),
                                  !.monitorWallpapers =
                                      [m \in {MonitorNames[1], MonitorNames[2]} |->
                                          IF m = MonitorNames[1] THEN PathA
                                          ELSE PathB]])}

\* run() is entered
InitDaemon ==
    /\ dpc = "start"
    /\ once \in BOOLEAN
    /\ dret = None
    /\ installed \in SUBSET Tools

\* run() resolves its monitors and builds the executor with them; a failed
\* resolution ends run() through `?`. The inputs are moved into the call and
\* not read again.
StartMonitors ==
    /\ dpc = "start"
    /\ LET r == RunMonitors(explicit_outputs, auto_detect, niri)
       IN  IF IsErr(r.res)
           THEN dpc' = "exit" /\ dret' = Some(r.res) /\ monitors' = monitors
           ELSE dpc' = "check" /\ dret' = dret /\ monitors' = r.outputs
    /\ explicit_outputs' = << >>
    /\ auto_detect' = FALSE
    /\ niri' = NoNiri
    /\ UNCHANGED <<config, exists, change, epc, apc, mpc, tasks, errors,
                   awww_result, matugen_result, matugen_calls, apply_result,
                   once, installed, mres, stdout_text, pres>>

\* a faulty variant: both commands are looked for, enabled or not
check_dependencies_Always(cfg, found) ==
    IF "awww" \notin found THEN Err("CommandNotFound", "awww", 0)
    ELSE IF "dms" \notin found THEN Err("CommandNotFound", "dms", 0)
    ELSE Ok

\* Executor::check_dependencies, `found` being the commands which() finds
check_dependencies(cfg, found) ==
    IF cfg.awww_enabled /\ "awww" \notin found
    THEN Err("CommandNotFound", "awww", 0)
    ELSE IF cfg.matugen_enabled /\ "dms" \notin found
    THEN Err("CommandNotFound", "dms", 0)
    ELSE Ok

\* executor.check_dependencies()?: a missing command ends run()
CheckDependencies ==
    /\ dpc = "check"
    /\ LET r == check_dependencies(config, installed)
       IN  IF IsErr(r)
           THEN dpc' = "exit" /\ dret' = Some(r)
           ELSE dpc' = "initial" /\ dret' = dret
    /\ UNCHANGED <<once, installed>>

\* a faulty variant: the watcher is created before the initial apply
Subscribed_BeforeInitialApply ==
    dpc \in {"initial", "initial_applying", "initial_done", "loop", "watching",
             "settle", "applying", "applied"}

\* the watcher has been created and not yet dropped: run() is in its loop
Subscribed == dpc \in {"loop", "watching", "settle", "applying", "applied"}

\* apply_wallpaper_once up to the call of executor.apply_wallpaper: a failed
\* read returns its error, else the apply of the state just read starts
ApplyOnceStart(from, applying, failed) ==
    /\ dpc = from
    /\ \E order \in IterationOrders(DOMAIN session.doc.monitorWallpapers) :
          LET state == get_current_state(session, settings, config, order)
          IN  IF IsErr(state.res)
              THEN /\ apply_result' = Some(state.res)
                   /\ dpc' = failed
                   /\ UNCHANGED <<change, epc, apc, mpc>>
              ELSE /\ change' = [wallpapers |-> state.wallpapers,
                                 is_light_mode |-> state.is_light_mode]
                   /\ epc' = "join"
                   /\ apc' = "start"
                   /\ mpc' = "start"
                   /\ apply_result' = None
                   /\ dpc' = applying
    /\ UNCHANGED <<config, monitors, exists, tasks, errors, awww_result,
                   matugen_result, matugen_calls, once, installed, dret>>

\* executor.apply_wallpaper has returned to apply_wallpaper_once: the change
\* read for the cycle, the JoinSet and the two results are dropped, and the
\* cycle's result stays with the caller
ExecutorDropped ==
    /\ epc' = "idle"
    /\ apc' = "start"
    /\ mpc' = "start"
    /\ change' = [wallpapers |-> << >>, is_light_mode |-> FALSE]
    /\ tasks' = << >>
    /\ errors' = << >>
    /\ awww_result' = Ok
    /\ matugen_result' = Ok
    /\ matugen_calls' = << >>
    /\ UNCHANGED <<config, monitors, exists, apply_result>>

\* the initial apply_wallpaper_once of run()
InitialApply == ApplyOnceStart("initial", "initial_applying", "initial_done")

\* executor.apply_wallpaper of the initial apply has returned
InitialApplyReturn ==
    /\ dpc = "initial_applying"
    /\ epc = "returned"
    /\ dpc' = "initial_done"
    /\ ExecutorDropped
    /\ UNCHANGED <<once, installed, dret>>

\* how RecommendedWatcher::new and watcher.watch can fail: the watch limit of
\* the system is used up, or the directory of the session file is missing
WatchLimitReached == "OS file watch limit reached."
WatchPathNotFound == "No path was found."
WatchFailures == {WatchLimitReached, WatchPathNotFound}

\* a faulty variant: a critical failure of the initial apply ends run(), as
\* it does in the loop
AfterInitialApply_FailsOnCritical ==
    /\ dpc = "initial_done"
    /\ IF IsErr(apply_result[1]) /\ is_critical(apply_result[1])
       THEN dpc' = "exit" /\ dret' = apply_result
       ELSE IF once
       THEN dpc' = "exit" /\ dret' = Some(Ok)
       ELSE \/ dpc' = "loop" /\ dret' = dret
            \/ /\ dpc' = "exit"
               /\ \E f \in WatchFailures : dret' = Some(Err("Watcher", <<f>>, 0))
    /\ apply_result' = None
    /\ UNCHANGED <<config, monitors, exists, change, epc, apc, mpc, tasks,
                   errors, awww_result, matugen_result, matugen_calls, once, installed>>

\* after the initial apply, whose failure is only logged: return when run
\* once, else create the watcher, whose failure ends run() through `?`
AfterInitialApply ==
    /\ dpc = "initial_done"
    /\ IF once
       THEN dpc' = "exit" /\ dret' = Some(Ok)
       ELSE \/ dpc' = "loop" /\ dret' = dret
            \/ /\ dpc' = "exit"
               /\ \E f \in WatchFailures : dret' = Some(Err("Watcher", <<f>>, 0))
    /\ apply_result' = None
    /\ UNCHANGED <<config, monitors, exists, change, epc, apc, mpc, tasks,
                   errors, awww_result, matugen_result, matugen_calls, once, installed>>

\* the loop calls watcher.next()
LoopCallNext ==
    /\ dpc = "loop"
    /\ dpc' = "watching"
    /\ CallNext
    /\ UNCHANGED <<once, installed, dret>>

\* watcher.next() returned Ok(Some(event)): sleep 50 ms, then apply
LoopOnEvent ==
    /\ dpc = "watching"
    /\ wpc = "idle"
    /\ wret = "event"
    /\ dpc' = "settle"
    /\ UNCHANGED <<once, installed, dret>>

\* a faulty variant: the end of the stream sends the loop round again
LoopOnClosed_GoesOn ==
    /\ dpc = "watching"
    /\ wpc = "idle"
    /\ wret = "eos"
    /\ dpc' = "loop"
    /\ UNCHANGED <<once, installed, dret>>

\* watcher.next() returned Ok(None): run() returns a Watcher error
LoopOnClosed ==
    /\ dpc = "watching"
    /\ wpc = "idle"
    /\ wret = "eos"
    /\ dpc' = "exit"
    /\ dret' = Some(Err("Watcher", <<"Channel closed">>, 0))
    /\ UNCHANGED <<once, installed>>

\* a faulty variant: the loop applies a state only when it is not the one
\* of the call before
LoopApply_OnlyOnChange ==
    \/ /\ dpc = "settle"
       /\ \E order \in IterationOrders(DOMAIN session.doc.monitorWallpapers) :
             attempts.last = Some(get_current_state(session, settings, config, order))
       /\ dpc' = "loop"
       /\ UNCHANGED <<evars, once, installed, dret>>
    \/ /\ \A order \in IterationOrders(DOMAIN session.doc.monitorWallpapers) :
             attempts.last # Some(get_current_state(session, settings, config, order))
       /\ ApplyOnceStart("settle", "applying", "applied")

\* the sleep is over: apply_wallpaper_once of the loop
LoopApply == ApplyOnceStart("settle", "applying", "applied")

\* executor.apply_wallpaper of the loop has returned
LoopApplyReturn ==
    /\ dpc = "applying"
    /\ epc = "returned"
    /\ dpc' = "applied"
    /\ ExecutorDropped
    /\ UNCHANGED <<once, installed, dret>>

\* the loop handles the result of apply_wallpaper_once: a critical error
\* ends run(), anything else goes round the loop
LoopAfterApply ==
    /\ dpc = "applied"
    /\ IF IsErr(apply_result[1]) /\ is_critical(apply_result[1])
       THEN dpc' = "exit" /\ dret' = apply_result
       ELSE dpc' = "loop" /\ dret' = dret
    /\ apply_result' = None
    /\ UNCHANGED <<config, monitors, exists, change, epc, apc, mpc, tasks,
                   errors, awww_result, matugen_result, matugen_calls, once, installed>>

\* the shell rewrites the session file; once the watcher exists the write
\* raises a notification for the file
ShellWrites ==
    /\ dpc # "exit"
    /\ \E f \in DaemonFiles : session' = f
    /\ IF Subscribed /\ ~closed
       THEN /\ raised < DaemonMaxEvents
            /\ Notify
       ELSE UNCHANGED wvars
    /\ UNCHANGED <<last_wallpapers, hret, hbefore, hrepeat, observed,
                   observed_before, rstate>>

\* nothing has been logged
NoLog ==
    /\ attempts = [count |-> 0, last |-> None, repeat |-> FALSE]
    /\ since = "none"

\* the log after a step of run(): when the step started an apply (dpc is
\* now `applying`) or failed to read the state (`failed`), the number of
\* apply_wallpaper_once calls so far, the error of the read or the state
\* being applied, and whether the call before it had the same
LogAttempt(applying, failed) ==
    LET entry == IF dpc' = failed
                 THEN [res |-> apply_result'[1], wallpapers |-> << >>,
                       is_light_mode |-> FALSE]
                 ELSE [res |-> Ok, wallpapers |-> change'.wallpapers,
                       is_light_mode |-> change'.is_light_mode]
    IN  attempts' = IF dpc' \in {applying, failed}
                    THEN [count |-> attempts.count + 1,
                          last |-> Some(entry),
                          repeat |-> attempts.last = Some(entry)]
                    ELSE attempts

\* main(): the exit status of the process for what run() returned
ExitStatus(result) == IF IsErr(result) THEN 1 ELSE 0

\* no daemon takes part
NoDaemon ==
    /\ dpc = "none"
    /\ once = FALSE
    /\ dret = None
    /\ installed = {}

(***************************************************************************)
(* The debounced watcher's claims (SpecW)                                  *)
(***************************************************************************)
\* C1: any two successive emissions of next() are at least the debounce
\* interval apart, measured at the instants stored in last_event_time.
C1_EmissionsSpaced ==
    prev_emitted # None =>
        last_event_time[1] - prev_emitted[1] >= FromMillis(debounce_ms)

\* two emissions exactly one non-zero interval apart, the second one made
\* after an earlier event had been held back by the sleep
C1_Witness ==
    /\ debounce_ms >= 1
    /\ Len(emitted) >= 2
    /\ dropped # {}
    /\ last_event_time[1] - prev_emitted[1] = FromMillis(debounce_ms)

\* all raw events so far arrived less than one debounce interval apart
BurstInOneInterval ==
    /\ burst # None
    /\ burst[2] - burst[1] < FromMillis(debounce_ms)

\* every raw event has been taken from the channel and next() holds none
BurstConsumed ==
    /\ raised >= 1
    /\ rx = << >>
    /\ event = None
    /\ wpc \in {"idle", "recv"}
    /\ Len(emitted) + Cardinality(dropped) = raised

\* C2: a burst of N >= 1 raw events that all arrive within one debounce
\* interval, starting from Idle, produces exactly one emission from repeated
\* calls of next(): never more than one, and one once the burst is consumed.
C2_BurstEmitsOnce ==
    BurstInOneInterval =>
        /\ Len(emitted) <= 1
        /\ BurstConsumed => Len(emitted) = 1

\* C3: an event received less than one interval after the last emission is
\* not lost: when its remaining wait has elapsed next() emits it, so next()
\* never lets go of an event it held back.
C3_DelayedEventEmitted == dropped = {}

\* C31: last_event_time changes only in a step of next() that returns an
\* event, and every such step sets it to the time of the step; a step that
\* holds an event back, ends a sleep, finds the channel closed, or is not
\* one of next() leaves it as it was, and once set it is never None again.
C31_LastEmittedOnlyOnEmission ==
    [][/\ Len(emitted') # Len(emitted) =>
             /\ Len(emitted') = Len(emitted) + 1
             /\ wret' = "event"
             /\ last_event_time' = Some(now)
       /\ Len(emitted') = Len(emitted) => last_event_time' = last_event_time
       /\ last_event_time # None => last_event_time' # None
      ]_vars

\* next() emitted, held an event back and slept, emitted again at a later
\* time and then found the channel closed
C31_Witness ==
    /\ Len(emitted) = 2
    /\ dropped # {}
    /\ wret = "eos"
    /\ prev_emitted # None
    /\ last_event_time[1] > prev_emitted[1]

(***************************************************************************)
(* The session differ's claims (SpecS)                                     *)
(***************************************************************************)
\* the path lists a read of the file can yield, one per iteration order
ValidPathLists(file) ==
    {CurrentPaths(get_current_state(file, settings, config, o)) :
        o \in IterationOrders(DOMAIN file.doc.monitorWallpapers)}

C9_RepeatedCallFalse ==
    (hrepeat /\ hret.kind = "ok") => ~hret.changed

\* C10: a has_changed that fails because the read fails leaves the
\* fingerprint as it was before the call, so the fingerprint is always the
\* path list the last successful call read.
C10_FailureKeepsFingerprint ==
    /\ hret.kind = "err" => last_wallpapers = hbefore
    /\ last_wallpapers = observed

\* has_changed failed with "no valid wallpapers" after a two-path list had
\* been observed
C10_Witness ==
    /\ hret.kind = "err"
    /\ hret.err = "InvalidWallpaperPath"
    /\ Len(hbefore) = 2

\* a color literal: a value that starts with '#' or with '/#'
IsColorLiteral(path) ==
    \/ (Len(path) >= 1 /\ path[1] = "#")
    \/ (Len(path) >= 2 /\ path[1] = "/" /\ path[2] = "#")

\* a usable image path: not empty and not a color literal
IsImagePath(path) == path # << >> /\ ~IsColorLiteral(path)

\* the session file is a document in per-monitor mode
PerMonitorMode ==
    /\ session.kind = "doc"
    /\ session.doc.perMonitorWallpaper = Some(TRUE)

\* the session file is a document in single mode: the flag is false or absent
SingleMode ==
    /\ session.kind = "doc"
    /\ session.doc.perMonitorWallpaper \in {None, Some(FALSE)}

\* C18: for a session in single mode whose wallpaperPath is a non-empty,
\* non-color path, get_current_state returns exactly one assignment, with that
\* path and no monitor, and is_light_mode equal to isLightMode (false when
\* absent), whatever monitorWallpapers holds.
C18_SingleModeOneAssignment ==
    (/\ rstate # None
     /\ SingleMode
     /\ session.doc.wallpaperPath # None
     /\ IsImagePath(session.doc.wallpaperPath[1]))
    => /\ rstate[1].res = Ok
       /\ rstate[1].wallpapers = <<[path |-> session.doc.wallpaperPath[1],
                                    monitor |-> None]>>
       /\ rstate[1].is_light_mode =
             (IF session.doc.isLightMode = None THEN FALSE
              ELSE session.doc.isLightMode[1])

\* a single-mode read of a light-mode document whose per-monitor map holds
\* two image paths and whose flag is written as false
C18_Witness ==
    /\ rstate # None
    /\ session.kind = "doc"
    /\ session.doc.perMonitorWallpaper = Some(FALSE)
    /\ session.doc.isLightMode = Some(TRUE)
    /\ Cardinality(DOMAIN session.doc.monitorWallpapers) = 2
    /\ \A m \in DOMAIN session.doc.monitorWallpapers :
          session.doc.monitorWallpapers[m] = PathB
    /\ rstate[1].wallpapers = <<[path |-> PathA, monitor |-> None]>>
    /\ rstate[1].is_light_mode

\* the monitors whose per-monitor value is a usable image path
ImageEntries ==
    {m \in DOMAIN session.doc.monitorWallpapers :
        IsImagePath(session.doc.monitorWallpapers[m])}

\* C19: for a session in per-monitor mode with at least one non-empty,
\* non-color per-monitor value, get_current_state returns exactly one
\* assignment per such entry, for that entry's monitor with that entry's
\* path, and none for an entry whose value is empty or a color literal.
C19_PerMonitorOnePerEntry ==
    (rstate # None /\ PerMonitorMode /\ ImageEntries # {})
    => /\ rstate[1].res = Ok
       /\ Len(rstate[1].wallpapers) = Cardinality(ImageEntries)
       /\ Range(rstate[1].wallpapers) =
             {[path |-> session.doc.monitorWallpapers[m], monitor |-> Some(m)] :
                 m \in ImageEntries}

\* a per-monitor read that kept one entry and left out a '/#' color entry,
\* the top-level wallpaperPath being another image
C19_Witness ==
    /\ rstate # None
    /\ PerMonitorMode
    /\ Cardinality(DOMAIN session.doc.monitorWallpapers) = 2
    /\ \E m \in DOMAIN session.doc.monitorWallpapers :
          session.doc.monitorWallpapers[m] = ColorSlashHash
    /\ session.doc.wallpaperPath = Some(PathB)
    /\ Len(rstate[1].wallpapers) = 1
    /\ rstate[1].wallpapers[1].path = PathA
    /\ rstate[1].wallpapers[1].monitor # None

\* per-monitor mode in which every per-monitor value is empty, or the map is
\* empty, and a top-level wallpaperPath is present
FallbackCase ==
    /\ PerMonitorMode
    /\ \A m \in DOMAIN session.doc.monitorWallpapers :
          session.doc.monitorWallpapers[m] = << >>
    /\ session.doc.wallpaperPath # None

\* the top-level wallpaperPath as the only assignment, with no monitor
TopLevelAssignment ==
    <<[path |-> session.doc.wallpaperPath[1], monitor |-> None]>>

\* C20 as stated: in per-monitor mode with every per-monitor value empty or
\* the map empty, get_current_state returns the top-level wallpaperPath as a
\* single assignment with no monitor.
C20_FallbackReturned ==
    (rstate # None /\ FallbackCase)
    => /\ rstate[1].res = Ok
       /\ rstate[1].wallpapers = TopLevelAssignment

\* C20 amended: in per-monitor mode with every per-monitor value empty or
\* the map empty, get_current_state returns the top-level wallpaperPath as a
\* single assignment with no monitor when that path is non-empty and not a
\* color literal, and fails with InvalidWallpaperPath otherwise.
C20_FallbackToTopLevel ==
    (rstate # None /\ FallbackCase)
    => IF IsImagePath(session.doc.wallpaperPath[1])
       THEN /\ rstate[1].res = Ok
            /\ rstate[1].wallpapers = TopLevelAssignment
       ELSE /\ rstate[1].res.kind = "InvalidWallpaperPath"
            /\ rstate[1].wallpapers = << >>

\* a fallback read: two per-monitor entries, both empty, and the top-level
\* image returned with no monitor
C20_Witness ==
    /\ rstate # None
    /\ FallbackCase
    /\ Cardinality(DOMAIN session.doc.monitorWallpapers) = 2
    /\ rstate[1].res = Ok
    /\ rstate[1].wallpapers = <<[path |-> PathA, monitor |-> None]>>

\* the per-monitor entries whose value is not empty
NonEmptyEntries ==
    {m \in DOMAIN session.doc.monitorWallpapers :
        session.doc.monitorWallpapers[m] # << >>}

\* C39: in per-monitor mode get_current_state returns the top-level
\* wallpaperPath (an assignment with no monitor) only when no per-monitor
\* value is non-empty; when some per-monitor value is non-empty and every
\* non-empty one is a color literal, it fails with InvalidWallpaperPath,
\* whatever the top-level wallpaperPath is.
C39_ColorsBlockFallback ==
    (rstate # None /\ PerMonitorMode) =>
        /\ (\E i \in DOMAIN rstate[1].wallpapers :
                rstate[1].wallpapers[i].monitor = None) => NonEmptyEntries = {}
        /\ (NonEmptyEntries # {} /\ ImageEntries = {}) =>
              /\ rstate[1].res.kind = "InvalidWallpaperPath"
              /\ rstate[1].wallpapers = << >>

\* the read of a per-monitor document whose only non-empty entry is a color
\* failed although the top-level wallpaperPath is an image path
C39_Witness ==
    /\ rstate # None
    /\ PerMonitorMode
    /\ Cardinality(NonEmptyEntries) = 1
    /\ ImageEntries = {}
    /\ session.doc.wallpaperPath = Some(PathA)
    /\ rstate[1].res.kind = "InvalidWallpaperPath"

\* the document holds no usable image path at all
NoImageAnywhere ==
    /\ session.kind = "doc"
    /\ session.doc.wallpaperPath # None => ~IsImagePath(session.doc.wallpaperPath[1])
    /\ ImageEntries = {}

\* C21: every WallpaperChange get_current_state returns holds at least one
\* assignment and every path in it is non-empty and no color literal; a read
\* of a document that does not succeed fails with InvalidWallpaperPath and
\* returns no change, which is what happens whenever the document holds no
\* usable image path.
C21_ChangeNeverEmpty ==
    rstate # None =>
        /\ rstate[1].res = Ok =>
              /\ Len(rstate[1].wallpapers) >= 1
              /\ \A i \in DOMAIN rstate[1].wallpapers :
                    IsImagePath(rstate[1].wallpapers[i].path)
        /\ (session.kind = "doc" /\ rstate[1].res # Ok) =>
              /\ rstate[1].res.kind = "InvalidWallpaperPath"
              /\ rstate[1].wallpapers = << >>
        /\ NoImageAnywhere => rstate[1].res.kind = "InvalidWallpaperPath"

\* the read of a single-mode document whose wallpaperPath is a '#' color
\* failed with InvalidWallpaperPath
C21_Witness ==
    /\ rstate # None
    /\ SingleMode
    /\ session.doc.wallpaperPath = Some(ColorHash)
    /\ rstate[1].res.kind = "InvalidWallpaperPath"
    /\ rstate[1].wallpapers = << >>

\* C33: the assignments get_current_state returns are in an order fixed by
\* the session document: a second read of the file, neither file rewritten
\* since the first, gives the same ordered list of assignments (and so the
\* same first assignment) as the first read.
C33_ReadOrderDeterministic ==
    [][(rstate # None /\ rstate' # None /\ session' = session
            /\ settings' = settings) =>
          rstate'[1].wallpapers = rstate[1].wallpapers
      ]_vars

(***************************************************************************)
(* The fingerprint's claims (SpecF)                                        *)
(***************************************************************************)
\* C37: has_changed compares the path lists only: when every rewrite of the
\* session file since the last successful call changed isLightMode alone, or
\* moved one wallpaper to another monitor, the next has_changed returns
\* Ok(false) and leaves the fingerprint as it was.
C37_OnlyPathsCompared ==
    [][(since = "cosmetic" /\ since' # since /\ session' = session) =>
          /\ hret' = RetOk(FALSE)
          /\ last_wallpapers' = last_wallpapers
      ]_vars

(***************************************************************************)
(* The parallel executor's claims (SpecE)                                  *)
(***************************************************************************)
\* the invocations of the apply cycle that failed
FailedTasks == {i \in DOMAIN tasks : tasks[i].st = "joined" /\ IsErr(tasks[i].res)}
ThemeFailed == mpc = "done" /\ IsErr(matugen_result)
NumFailures == Cardinality(FailedTasks) + (IF ThemeFailed THEN 1 ELSE 0)
FailureMessages ==
    {to_string(tasks[i].res) : i \in FailedTasks}
    \cup (IF ThemeFailed THEN {to_string(matugen_result)} ELSE {})

\* C4: when exactly one invocation of an apply cycle failed (one
\* (assignment, monitor) pair or the theme invocation), apply_wallpaper
\* returns that failure itself, with its own kind, not a MultipleErrors.
C4_SingleFailureAsIs ==
    (epc = "returned" /\ NumFailures = 1) =>
        /\ apply_result[1].kind # "MultipleErrors"
        /\ \A i \in FailedTasks : apply_result[1] = tasks[i].res
        /\ ThemeFailed => apply_result[1] = matugen_result

\* C5: when two or more invocations of an apply cycle failed, apply_wallpaper
\* returns a MultipleErrors whose list holds the message of every one of them.
C5_AggregateKeepsEveryMessage ==
    (epc = "returned" /\ NumFailures >= 2) =>
        /\ apply_result[1].kind = "MultipleErrors"
        /\ FailureMessages \subseteq Range(apply_result[1].msgs)

\* C6: no dispatched task is ever cancelled, and when apply_wallpaper returns
\* every (assignment, monitor) task it dispatched and the theme sub-operation
\* have run to their own completion, whatever their siblings' outcomes.
C6_EveryTaskCompletes ==
    /\ \A i \in DOMAIN tasks : tasks[i].st \in {"spawned", "joined"}
    /\ epc = "returned" =>
          /\ mpc = "done"
          /\ apc = "done"
          /\ config.awww_enabled =>
                /\ Len(tasks) = Len(SpawnList(change.wallpapers, monitors))
                /\ \A i \in DOMAIN tasks : tasks[i].st = "joined"

\* a cycle of at least three tasks has returned in which the first task
\* failed, a later task ran its command to success and the theme failed
C6_Witness ==
    /\ epc = "returned"
    /\ Len(tasks) >= 3
    /\ IsErr(tasks[1].res)
    /\ \E i \in DOMAIN tasks : tasks[i].invoked /\ ~IsErr(tasks[i].res)
    /\ ThemeFailed

\* the monitors an assignment is meant for: its own target, else every
\* resolved monitor, else "ALL"
ExpectedTargets(w) ==
    IF w.monitor # None THEN {w.monitor[1]}
    ELSE IF monitors # << >> THEN Range(monitors)
    ELSE {"ALL"}

\* the number of assignments with path p that are meant for monitor m, and
\* the number of tasks dispatched for path p and monitor m
PairCount(p, m) ==
    Cardinality({k \in DOMAIN change.wallpapers :
                    /\ change.wallpapers[k].path = p
                    /\ m \in ExpectedTargets(change.wallpapers[k])})
Dispatched(p, m) ==
    Cardinality({i \in DOMAIN tasks : tasks[i].path = p /\ tasks[i].monitor = m})

\* C23: with awww enabled, apply_awww dispatches for every path and monitor
\* as many tasks as there are assignments with that path meant for that
\* monitor (its own target, else the resolved list, else "ALL"): no pair is
\* dispatched twice and none is left out; and when apply_wallpaper returns,
\* the command has been run once for every task whose file exists.
C23_OneInvocationPerPair ==
    (config.awww_enabled /\ apc \in {"joining", "done"}) =>
        /\ \A i \in DOMAIN tasks :
              /\ tasks[i].path \in ImagePaths
              /\ tasks[i].monitor \in Monitors \cup {"ALL"}
        /\ \A p \in ImagePaths, m \in Monitors \cup {"ALL"} :
              Dispatched(p, m) = PairCount(p, m)
        /\ epc = "returned" =>
              \A i \in DOMAIN tasks : tasks[i].path \in exists => tasks[i].invoked

\* a returned cycle of three tasks: one assignment with its own target and
\* one without, over two resolved monitors, every command having been run
C23_Witness ==
    /\ epc = "returned"
    /\ config.awww_enabled
    /\ Len(monitors) = 2
    /\ Len(change.wallpapers) = 2
    /\ change.wallpapers[1].monitor # None
    /\ change.wallpapers[2].monitor = None
    /\ Len(tasks) = 3
    /\ \A i \in DOMAIN tasks : tasks[i].invoked

\* C24: a task whose wallpaper file does not exist never runs the command
\* and ends with InvalidWallpaperPath naming that path, while a task whose
\* file exists runs the command; and when apply_wallpaper returns with awww
\* enabled, every task has so ended.
C24_MissingFileNotInvoked ==
    /\ \A i \in DOMAIN tasks :
          tasks[i].st = "joined" =>
              IF tasks[i].path \notin exists
              THEN /\ ~tasks[i].invoked
                   /\ tasks[i].outcome = "none"
                   /\ tasks[i].res = Err("InvalidWallpaperPath", tasks[i].path, 0)
              ELSE /\ tasks[i].invoked
                   /\ tasks[i].outcome \in Outcomes
                   /\ tasks[i].res.kind # "InvalidWallpaperPath"
    /\ (epc = "returned" /\ config.awww_enabled) =>
          \A i \in DOMAIN tasks : tasks[i].st = "joined"

\* a returned cycle in which the task of a missing file failed and the task
\* of an existing file ran its command to success
C24_Witness ==
    /\ epc = "returned"
    /\ \E i \in DOMAIN tasks :
          tasks[i].path \notin exists /\ tasks[i].res.kind = "InvalidWallpaperPath"
    /\ \E i \in DOMAIN tasks :
          tasks[i].path \in exists /\ tasks[i].invoked /\ tasks[i].res = Ok

\* C25: with matugen enabled, an apply cycle runs the theme command at most
\* once, for the path of the first assignment of the change and with mode
\* light exactly when is_light_mode; when that first file does not exist the
\* command is not run and apply_matugen fails with InvalidWallpaperPath, and
\* when it exists the command is run, whatever the other assignments and the
\* monitors are.
C25_ThemeFromFirstAssignment ==
    config.matugen_enabled =>
        /\ Len(matugen_calls) <= 1
        /\ \A k \in DOMAIN matugen_calls :
              /\ matugen_calls[k].value = change.wallpapers[1].path
              /\ matugen_calls[k].mode \in {"light", "dark"}
              /\ matugen_calls[k].mode = "light" <=> change.is_light_mode
        /\ mpc \in {"running", "done"} =>
              IF change.wallpapers[1].path \in exists
              THEN Len(matugen_calls) = 1
              ELSE /\ matugen_calls = << >>
                   /\ mpc = "done"
                   /\ matugen_result =
                         Err("InvalidWallpaperPath", change.wallpapers[1].path, 0)

\* a returned cycle in light mode over two monitors whose first assignment
\* exists and whose second, with another path, does not: one theme command,
\* for the first path
C25_Witness ==
    /\ epc = "returned"
    /\ config.matugen_enabled
    /\ Len(monitors) = 2
    /\ Len(change.wallpapers) = 2
    /\ change.wallpapers[1].path \in exists
    /\ change.wallpapers[2].path \notin exists
    /\ change.is_light_mode
    /\ Len(matugen_calls) = 1
    /\ matugen_calls[1].value = change.wallpapers[1].path
    /\ matugen_calls[1].mode = "light"

\* C26: a disabled sub-operation does nothing and succeeds: with awww
\* disabled no task is spawned and apply_awww returns Ok, with matugen
\* disabled no theme command is run and apply_matugen returns Ok, whether or
\* not the files exist; so apply_wallpaper returns Ok when both are disabled
\* and the other sub-operation's result when one is.
C26_DisabledIsNoOp ==
    /\ ~config.awww_enabled => (tasks = << >> /\ awww_result = Ok)
    /\ ~config.matugen_enabled =>
          /\ matugen_calls = << >>
          /\ mpc # "running"
          /\ matugen_result = Ok
    /\ epc = "returned" =>
          /\ (~config.awww_enabled /\ ~config.matugen_enabled) =>
                apply_result = Some(Ok)
          /\ (~config.awww_enabled /\ config.matugen_enabled) =>
                apply_result = Some(matugen_result)
          /\ (config.awww_enabled /\ ~config.matugen_enabled) =>
                apply_result = Some(awww_result)

\* apply_wallpaper returned the failure of apply_awww as it was, matugen
\* being disabled and the first file missing
C26_Witness ==
    /\ epc = "returned"
    /\ config.awww_enabled
    /\ ~config.matugen_enabled
    /\ change.wallpapers[1].path \notin exists
    /\ IsErr(awww_result)
    /\ apply_result = Some(awww_result)

\* C27: a command ended by a signal is reported as a failure of its own
\* kind, CommandTerminated, that names the tool, and a command that exited
\* with a non-zero status as a CommandFailed that names the tool and holds
\* the exit code.
C27_SignalIsTyped ==
    /\ \A i \in DOMAIN tasks :
          /\ tasks[i].outcome = "signal" =>
                /\ tasks[i].res.kind = "CommandTerminated"
                /\ tasks[i].res.arg = "awww"
          /\ tasks[i].outcome = "exit" =>
                tasks[i].res = Err("CommandFailed", "awww", 1)
    /\ \A k \in DOMAIN matugen_calls :
          /\ matugen_calls[k].outcome = "signal" =>
                /\ matugen_result.kind = "CommandTerminated"
                /\ matugen_result.arg = "dms matugen"
          /\ matugen_calls[k].outcome = "exit" =>
                matugen_result = Err("CommandFailed", "dms matugen", 1)

(***************************************************************************)
(* The daemon loop's claims (SpecD)                                        *)
(***************************************************************************)
\* run() is inside apply_wallpaper_once
InCycle == dpc \in {"initial_applying", "applying"}

\* C7: apply cycles never overlap. Outside a cycle (and so whenever
\* watcher.next() is pending and whenever the next cycle begins) the executor
\* holds no task and no theme command; a cycle returns to the loop only when
\* both of its futures are done and every spawned task has been joined; and
\* no task is ever aborted mid-cycle.
C7_CyclesNeverOverlap ==
    /\ ~InCycle => (epc = "idle" /\ tasks = << >> /\ mpc = "start")
    /\ wpc # "idle" => ~InCycle
    /\ epc = "returned" =>
          /\ apc = "done"
          /\ mpc = "done"
          /\ \A i \in DOMAIN tasks : tasks[i].st = "joined"
    /\ \A i \in DOMAIN tasks : tasks[i].st # "aborted"

\* the cycle after the second watcher signal has returned with two tasks,
\* one of them failed, and a theme command that ran
C7_Witness ==
    /\ dpc = "applying"
    /\ epc = "returned"
    /\ Len(emitted) = 2
    /\ Len(tasks) = 2
    /\ \E i \in DOMAIN tasks : IsErr(tasks[i].res)
    /\ \E i \in DOMAIN tasks : tasks[i].invoked
    /\ config.matugen_enabled

\* the error kinds for which is_critical is documented to hold
CriticalKinds ==
    {"Config", "CommandNotFound", "SessionFileNotFound", "NoMonitorsDetected"}

\* apply_wallpaper_once of the loop has failed with the error apply_result
LoopApplyFailed == dpc = "applied" /\ IsErr(apply_result[1])

\* C11: when an apply cycle of the loop fails with a critical error, the
\* loop's next step ends run() with that error, for which the process exits
\* with status 1; and once run() has returned, no watcher signal is taken
\* and no apply is started any more.
C11_CriticalErrorStopsLoop ==
    [][/\ (LoopApplyFailed /\ apply_result[1].kind \in CriticalKinds) =>
             \/ dpc' = dpc /\ apply_result' = apply_result
             \/ /\ dpc' = "exit"
                /\ dret' = apply_result
                /\ ExitStatus(dret'[1]) = 1
       /\ dpc = "exit" => UNCHANGED <<dpc, dret, wpc, wret, rx, emitted, evars>>
      ]_vars

\* run() has returned SessionFileNotFound from the loop after one signal was
\* applied, with a further notification still queued
C11_Witness ==
    /\ dpc = "exit"
    /\ dret # None
    /\ dret[1].kind = "SessionFileNotFound"
    /\ ExitStatus(dret[1]) = 1
    /\ Len(emitted) >= 1
    /\ rx # << >>

\* C12: when an apply cycle of the loop fails with an error that is not
\* critical, the daemon does not terminate and the apply is retried after a
\* short delay: the loop's next step is neither the end of run() nor the wait
\* for another watcher signal.
C12_RecoverableErrorRetried ==
    [][(LoopApplyFailed /\ apply_result[1].kind \notin CriticalKinds) =>
          dpc' \in {"applied", "settle", "applying"}
      ]_vars

\* C13: once the channel is closed and drained, a pending next() can only
\* return the end of the stream, whatever last_event_time holds and whether
\* or not it slept before; and the loop's only step on the end of the stream
\* is to end run() with an error, for which the process exits with status 1.
C13_ClosedChannelIsFatal ==
    [][/\ (wpc = "recv" /\ closed /\ rx = << >>) =>
             \/ wpc' = "recv" /\ wret' = wret
             \/ wpc' = "idle" /\ wret' = "eos"
       /\ wret = "eos" => closed /\ rx = << >>
       /\ (dpc = "watching" /\ wpc = "idle" /\ wret = "eos") =>
             \/ dpc' = dpc /\ wret' = wret /\ wpc' = wpc
             \/ /\ dpc' = "exit"
                /\ IsErr(dret'[1])
                /\ ExitStatus(dret'[1]) = 1
      ]_vars

\* run() has returned "Channel closed" after the watcher had emitted a
\* signal and had slept out an interval on a later one
C13_Witness ==
    /\ dpc = "exit"
    /\ dret = Some(Err("Watcher", <<"Channel closed">>, 0))
    /\ last_event_time # None
    /\ dropped # {}

\* C14: an error of the watch subsystem does not terminate the daemon unless
\* it says that the watched path is unusable: run() never returns the
\* Watcher error of a construction that failed for another reason.
C14_WatchErrorNotFatal ==
    (dpc = "exit" /\ IsErr(dret[1]) /\ dret[1].kind = "Watcher") =>
        dret[1].arg \in {<<"Channel closed">>, <<WatchPathNotFound>>}

\* C17: with no explicit monitor list and auto-detect disabled, the monitor
\* resolution of run() fails with NoMonitorsDetected and the daemon
\* terminates at startup: the only step run() takes from its start is to
\* return that error, so no apply is ever performed.
C17_NoMonitorsIsFatal ==
    [][(dpc = "start" /\ explicit_outputs = << >> /\ ~auto_detect) =>
          \/ dpc' = "start"
          \/ /\ dpc' = "exit"
             /\ dret' = Some(Err("NoMonitorsDetected", << >>, 0))
      ]_vars

\* the enabled tools that which() does not find
MissingTools ==
    {t \in Tools : /\ t \notin installed
                   /\ \/ t = "awww" /\ config.awww_enabled
                      \/ t = "dms" /\ config.matugen_enabled}

FreshStates ==
    {get_current_state(session, settings, config, order) :
        order \in IterationOrders(DOMAIN session.doc.monitorWallpapers)}

C35_InitialFailureNotFatal ==
    [][/\ (dpc \in {"initial", "initial_applying"} /\ dpc' # dpc) =>
             dpc' \in {"initial_applying", "initial_done"}
       /\ (dpc = "initial_done" /\ dpc' # dpc) =>
             IF once
             THEN /\ dpc' = "exit"
                  /\ dret' = Some(Ok)
                  /\ ExitStatus(dret'[1]) = 0
             ELSE \/ dpc' = "loop" /\ dret' = None
                  \/ dpc' = "exit" /\ dret'[1].kind = "Watcher"
      ]_vars

\* the initial apply failed with the critical SessionFileNotFound and the
\* daemon went on to wait for the watcher's first event
C35_Witness ==
    /\ ~once
    /\ dpc = "watching"
    /\ attempts.count = 1
    /\ attempts.last[1].res.kind = "SessionFileNotFound"
    /\ is_critical(attempts.last[1].res)
    /\ dret = None

\* C36: the watcher is created only once the initial apply is over, so a
\* rewrite of the session file before that raises no event; with no event
\* raised the only apply_wallpaper_once call is the initial one, and every
\* later call follows an event that next() returned.
C36_NoSignalBeforeSubscription ==
    [][/\ (dpc' = "loop" /\ dpc \notin {"loop", "applied"}) =>
             dpc = "initial_done" /\ attempts.count = 1
       /\ (session' # session
             /\ dpc \in {"initial", "initial_applying", "initial_done"}) =>
             UNCHANGED <<raised, rx, emitted>>
       /\ raised' = 0 => attempts'.count <= 1
       /\ (attempts' # attempts /\ attempts.count > 0) =>
             Len(emitted) = attempts.count
      ]_vars

\* the daemon waits for its first event, none raised, while the session
\* file holds a valid state that the initial apply did not read
C36_Witness ==
    /\ dpc = "watching"
    /\ raised = 0
    /\ ~closed
    /\ attempts.count = 1
    /\ attempts.last[1] \notin FreshStates
    /\ \E st \in FreshStates : st.res = Ok

(***************************************************************************)
(* Monitor resolution's claims (SpecM)                                     *)
(***************************************************************************)
\* C15: a resolution with a non-empty explicit list returns that list, the
\* same names in the same order, for both values of auto_detect, through
\* get_monitor_outputs and through run(), and runs no niri command.
C15_ExplicitListVerbatim ==
    (mres # None /\ explicit_outputs # << >>) =>
        /\ mres[1].ret.res = Ok
        /\ mres[1].ret.outputs = explicit_outputs
        /\ mres[1].ret.queries = 0

\* get_monitor_outputs returned an explicit list of two names, auto_detect
\* being set and the compositor reporting its outputs in the other order
C15_Witness ==
    /\ mres # None
    /\ mres[1].via = "get_monitor_outputs"
    /\ auto_detect
    /\ Len(explicit_outputs) = 2
    /\ explicit_outputs[1] # explicit_outputs[2]
    /\ niri.installed /\ niri.running
    /\ Len(niri.outputs) = 2
    /\ niri.outputs[1].enabled /\ niri.outputs[2].enabled
    /\ niri.outputs[1].name = explicit_outputs[2]
    /\ niri.outputs[2].name = explicit_outputs[1]
    /\ mres[1].ret.outputs = explicit_outputs

\* the compositor cannot be asked: niri is not installed or does not answer
QueryFails(env) == ~env.installed \/ ~env.running

\* the names of the compositor's enabled outputs, in its order
RECURSIVE EnabledOutputs(_)
EnabledOutputs(outputs) ==
    IF outputs = << >> THEN << >>
    ELSE IF Head(outputs).enabled
    THEN <<Head(outputs).name>> \o EnabledOutputs(Tail(outputs))
    ELSE EnabledOutputs(Tail(outputs))

\* C16: a resolution with an empty explicit list and auto_detect set never
\* fails: it returns ["ALL"] when the compositor cannot be asked or has no
\* enabled output, and the non-empty list of enabled outputs otherwise.
C16_AutoDetectNeverFails ==
    (mres # None /\ explicit_outputs = << >> /\ auto_detect) =>
        /\ mres[1].ret.res = Ok
        /\ mres[1].ret.outputs =
              IF QueryFails(niri) \/ EnabledOutputs(niri.outputs) = << >>
              THEN <<"ALL">>
              ELSE EnabledOutputs(niri.outputs)

\* the fallback was taken for a compositor that answers in text with two
\* outputs, both disabled, after both commands were run
C16_Witness ==
    /\ mres # None
    /\ explicit_outputs = << >>
    /\ auto_detect
    /\ niri.installed /\ niri.running
    /\ niri.format = "text"
    /\ Len(niri.outputs) = 2
    /\ mres[1].ret.outputs = <<"ALL">>
    /\ mres[1].ret.queries = 2

(***************************************************************************)
(* The text parser's claims (SpecP)                                        *)
(***************************************************************************)
\* line k of the text starts with `Output `
IsOutputLine(t, k) == t[k] # << >> /\ t[k][1] = "Output "

\* the positions of the opening parentheses of a line that are closed later
Opened(line) ==
    {i \in DOMAIN line :
        line[i] = "(" /\ \E j \in DOMAIN line : j > i /\ line[j] = ")"}

\* the identifier in the first parenthesized group of a line that has one
FirstGroup(line) ==
    LET i == CHOOSE a \in Opened(line) : \A b \in Opened(line) : a <= b
        j == CHOOSE a \in DOMAIN line :
                 /\ a > i /\ line[a] = ")"
                 /\ \A b \in DOMAIN line : (b > i /\ line[b] = ")") => a <= b
    IN  SubSeq(line, i + 1, j - 1)

\* a bare `Disabled` line follows line k before the next `Output ` line
DisabledFollows(t, k) ==
    \E m \in DOMAIN t :
        /\ m > k
        /\ SelectSeq(t[m], LAMBDA piece : piece # Blank) = <<"Disabled">>
        /\ \A n \in DOMAIN t : (k < n /\ n < m) => ~IsOutputLine(t, n)

\* the `Output ` lines whose identifier is to be returned
EnabledLines(t) ==
    {k \in DOMAIN t :
        IsOutputLine(t, k) /\ Opened(t[k]) # {} /\ ~DisabledFollows(t, k)}

\* the identifiers of these lines in order of appearance
RECURSIVE InOrder(_, _)
InOrder(t, ks) ==
    IF ks = {} THEN << >>
    ELSE LET k == CHOOSE a \in ks : \A b \in ks : a <= b
         IN  <<FirstGroup(t[k])>> \o InOrder(t, ks \ {k})

\* C32: the text parser returns, in order of appearance and each once, the
\* identifier in the first parenthesized group of every `Output ` line that
\* no bare `Disabled` line follows before the next `Output ` line, and fails
\* with NoMonitorsDetected when there is none.
C32_TextParserListsEnabled ==
    pres # None =>
        IF EnabledLines(stdout_text) = {}
        THEN pres[1].res.kind = "NoMonitorsDetected"
        ELSE /\ pres[1].res = Ok
             /\ pres[1].outputs = InOrder(stdout_text, EnabledLines(stdout_text))

(***************************************************************************)
(* The notification bridge's claims (SpecB)                                *)
(***************************************************************************)
\* the final name component of one of the notification's paths is the name
\* of the session file
AboutSessionFile(ev) ==
    \E p \in Range(ev.paths) : p # << >> /\ p[Len(p)] = "session.json"

\* the notifications the bridge task passed on to the channel
PassedOn == {i \in DOMAIN handled : handled[i].event # None}

\* C30: every event that reaches the channel of next() comes from a raw
\* notification one of whose paths has the session file's name as its final
\* component, and next() emits and holds back only events of the channel; a
\* step of the bridge task on a notification about other files leaves the
\* channel, the emissions and last_event_time as they were.
C30_OnlyTargetReachesDebounce ==
    [][/\ \A i \in PassedOn' : AboutSessionFile(handled'[i].raw)
       /\ Cardinality(PassedOn') = raised'
       /\ Len(emitted') + Cardinality(dropped') + Len(rx') + Len(event') = raised'
       /\ (nrx # << >> /\ nrx' = Tail(nrx) /\ ~AboutSessionFile(Head(nrx))) =>
             UNCHANGED <<rx, raised, emitted, last_event_time, event, wpc>>
      ]_vars

\* a modification of the temporary file was discarded and the rename onto
\* the session file that followed it was emitted by next()
C30_Witness ==
    /\ Len(handled) = 2
    /\ handled[1] = [raw |-> [kind |-> "Modify", paths |-> <<TmpPath>>],
                      event |-> None]
    /\ handled[2].raw.paths = <<TmpPath, SessionPath>>
    /\ handled[2].event # None
    /\ emitted = <<1>>
    /\ last_event_time # None

(***************************************************************************)
(* The full channel's claims (SpecQ)                                       *)
(***************************************************************************)
\* a notification the bridge task is to pass on: about the session file and
\* of kind create, modify, remove or any
Qualifying(ev) ==
    AboutSessionFile(ev) /\ ev.kind \in {"Create", "Modify", "Remove", "Any"}

\* the FileEvent a qualifying notification is passed on as
PassedAs(ev) ==
    IF ev.kind = "Create" THEN "Created"
    ELSE IF ev.kind = "Remove" THEN "Deleted"
    ELSE "Modified"

\* the number of events next() has taken from the channel
Taken == Len(emitted) + Cardinality(dropped) + Len(event)

SessionHasImage ==
    \/ /\ SingleMode
       /\ session.doc.wallpaperPath # None
       /\ IsImagePath(session.doc.wallpaperPath[1])
    \/ /\ PerMonitorMode
       /\ ImageEntries # {}

\* the settings document names a scheme
SettingsNameScheme == settings.kind = "doc" /\ settings.matugenScheme # None

\* C22: get_current_state fails with SessionFileNotFound when the session
\* file is absent and with a JSON error when it is malformed, and succeeds
\* for a document with a usable image whatever the settings file is;
\* get_matugen_scheme always returns a scheme, the configured default unless
\* the settings document names one; and an apply never fails with an error
\* of the settings file: it fails with what the session read gave or with the
\* failure of a task or of the theme command.
C22_SettingsNeverFatal ==
    /\ rstate # None =>
          /\ session.kind = "absent" => rstate[1].res.kind = "SessionFileNotFound"
          /\ session.kind = "malformed" => rstate[1].res.kind = "Json"
          /\ session.kind = "doc" =>
                rstate[1].res.kind \in {"Ok", "InvalidWallpaperPath"}
          /\ SessionHasImage => rstate[1].res = Ok
    /\ scheme_ret # None =>
          scheme_ret[1] = IF SettingsNameScheme THEN settings.matugenScheme[1]
                          ELSE config.default_scheme
    /\ apply_result # None =>
          /\ apply_result[1].kind # "SettingsFileNotFound"
          /\ apply_result[1].kind = "Json" => session.kind = "malformed"
          /\ (dpc = "initial_done" /\ SessionHasImage) =>
                apply_result[1].kind \notin {"Json", "SessionFileNotFound"}
          /\ (epc = "returned" /\ IsErr(apply_result[1])) => NumFailures >= 1
          /\ (epc = "returned" /\ NumFailures = 0) => apply_result[1] = Ok

\* with the settings file absent and another default scheme configured, the
\* read of a light-mode per-monitor document succeeded, get_matugen_scheme
\* gave the configured scheme and the apply went through
C22_Witness ==
    /\ settings = AbsentSettings
    /\ config.default_scheme # DEFAULT_MATUGEN_SCHEME
    /\ PerMonitorMode
    /\ rstate # None
    /\ rstate[1].res = Ok
    /\ scheme_ret = Some(config.default_scheme)
    /\ dpc = "initial_done"
    /\ apply_result = Some(Ok)

\* C38: the --matugen-type of every dms matugen command is the default
\* scheme of the configuration, whatever scheme the settings document names
\* and get_matugen_scheme returns.
C38_SchemeAlwaysConfigDefault ==
    \A i \in DOMAIN matugen_calls :
        matugen_calls[i].matugen_type = config.default_scheme

\* the theme command ran with the configured scheme while the settings
\* document, and with it get_matugen_scheme, named another
C38_Witness ==
    /\ Len(matugen_calls) = 1
    /\ matugen_calls[1].outcome = "ok"
    /\ SettingsNameScheme
    /\ settings.matugenScheme[1] # config.default_scheme
    /\ scheme_ret = settings.matugenScheme
    /\ matugen_calls[1].matugen_type = config.default_scheme

(***************************************************************************)
(* Error classification's claims (SpecC)                                   *)
(***************************************************************************)
\* the error kinds for which is_recoverable is documented to hold
RecoverableKinds == {"Io", "CommandFailed", "Timeout", "Watcher"}

InitW ==
    /\ NoLog
    /\ NoSettings
    /\ NoClassifier
    /\ NoBridge
    /\ NoMonitors
    /\ InitWatcher
    /\ NoExecutor
    /\ NoSession
    /\ NoDaemon

NextW ==
    \/ Tick /\ UNCHANGED <<hvars, tvars, cvars, bvars, mvars, evars, svars, dvars>>
    \/ Notify /\ UNCHANGED <<hvars, tvars, cvars, bvars, mvars, evars, svars, dvars>>
    \/ CloseChannel /\ UNCHANGED <<hvars, tvars, cvars, bvars, mvars, evars, svars, dvars>>
    \/ CallNext /\ UNCHANGED <<hvars, tvars, cvars, bvars, mvars, evars, svars, dvars>>
    \/ Recv /\ UNCHANGED <<hvars, tvars, cvars, bvars, mvars, evars, svars, dvars>>
    \/ RecvNone /\ UNCHANGED <<hvars, tvars, cvars, bvars, mvars, evars, svars, dvars>>
    \/ Wake /\ UNCHANGED <<hvars, tvars, cvars, bvars, mvars, evars, svars, dvars>>

SpecW == InitW /\ [][NextW]_vars

\* the executor alone: one apply_wallpaper call on a drawn WallpaperChange
InitE ==
    /\ NoLog
    /\ NoSettings
    /\ NoClassifier
    /\ NoBridge
    /\ NoMonitors
    /\ NoWatcher
    /\ NoSession
    /\ NoDaemon
    /\ InitExecutor
    /\ change \in Changes

NextE ==
    \/ ApplyWallpaper /\ UNCHANGED <<hvars, tvars, cvars, bvars, mvars, wvars, svars, dvars>>
    \/ AwwwStart /\ UNCHANGED <<hvars, tvars, cvars, bvars, mvars, wvars, svars, dvars>>
    \/ /\ \E i \in DOMAIN tasks : TaskRun(i)
       /\ UNCHANGED <<hvars, tvars, cvars, bvars, mvars, wvars, svars, dvars>>
    \/ AwwwReturn /\ UNCHANGED <<hvars, tvars, cvars, bvars, mvars, wvars, svars, dvars>>
    \/ MatugenStart /\ UNCHANGED <<hvars, tvars, cvars, bvars, mvars, wvars, svars, dvars>>
    \/ MatugenExit /\ UNCHANGED <<hvars, tvars, cvars, bvars, mvars, wvars, svars, dvars>>
    \/ ApplyReturn /\ UNCHANGED <<hvars, tvars, cvars, bvars, mvars, wvars, svars, dvars>>

SpecE == InitE /\ [][NextE]_vars

\* the session differ alone: has_changed calls between rewrites of the file
InitS ==
    /\ NoLog
    /\ NoSettings
    /\ NoClassifier
    /\ NoBridge
    /\ NoMonitors
    /\ NoWatcher
    /\ NoExecutor
    /\ NoDaemon
    /\ InitSession

NextS ==
    \/ HasChanged /\ UNCHANGED <<hvars, tvars, cvars, bvars, mvars, wvars, evars, dvars>>
    \/ HasChangedNoDoc /\ UNCHANGED <<hvars, tvars, cvars, bvars, mvars, wvars, evars, dvars>>
    \/ ReadState /\ UNCHANGED <<hvars, tvars, cvars, bvars, mvars, wvars, evars, dvars>>
    \/ WriteSession /\ UNCHANGED <<hvars, tvars, cvars, bvars, mvars, wvars, evars, dvars>>

SpecS == InitS /\ [][NextS]_vars

\* the session differ with the record of the rewrites between its calls
InitF ==
    /\ NoLog
    /\ NoSettings
    /\ NoClassifier
    /\ NoBridge
    /\ NoMonitors
    /\ NoWatcher
    /\ NoExecutor
    /\ NoDaemon
    /\ InitSession

NextF ==
    \/ /\ HasChanged
       /\ TrackCall
       /\ UNCHANGED <<attempts, tvars, cvars, bvars, mvars, wvars, evars, dvars>>
    \/ /\ HasChangedNoDoc
       /\ TrackCall
       /\ UNCHANGED <<attempts, tvars, cvars, bvars, mvars, wvars, evars, dvars>>
    \/ /\ WriteSession
       /\ TrackWrite
       /\ UNCHANGED <<attempts, tvars, cvars, bvars, mvars, wvars, evars, dvars>>
    \/ /\ MoveWallpaper
       /\ TrackWrite
       /\ UNCHANGED <<attempts, tvars, cvars, bvars, mvars, wvars, evars, dvars>>

SpecF == InitF /\ [][NextF]_vars

\* the daemon: run() with the watcher, the session file and the executor
InitD ==
    /\ NoLog
    /\ NoSettings
    /\ NoClassifier
    /\ NoBridge
    /\ explicit_outputs \in {<< >>, <<MonitorNames[1]>>}
    /\ auto_detect \in BOOLEAN
    /\ niri = [installed |-> TRUE, running |-> TRUE, format |-> "text",
               outputs |-> <<[name |-> MonitorNames[1], enabled |-> TRUE]>>]
    /\ mres = None
    /\ stdout_text = << >>
    /\ pres = None
    /\ InitWatcher
    /\ debounce_ms <= DaemonMaxDebounce
    /\ InitSession
    /\ InitExecutor
    /\ monitors = << >>
    /\ exists = {PathA}
    /\ change = [wallpapers |-> << >>, is_light_mode |-> FALSE]
    /\ InitDaemon

NextD ==
    \/ StartMonitors /\ UNCHANGED <<hvars, tvars, cvars, bvars, wvars, svars>>
    \/ CheckDependencies /\ UNCHANGED <<hvars, tvars, cvars, bvars, mvars, wvars, evars, svars>>
    \/ InitialApply /\ UNCHANGED <<hvars, tvars, cvars, bvars, mvars, wvars, svars>>
    \/ InitialApplyReturn /\ UNCHANGED <<hvars, tvars, cvars, bvars, mvars, wvars, svars>>
    \/ AfterInitialApply /\ UNCHANGED <<hvars, tvars, cvars, bvars, mvars, wvars, svars>>
    \/ LoopCallNext /\ UNCHANGED <<hvars, tvars, cvars, bvars, mvars, evars, svars>>
    \/ LoopOnEvent /\ UNCHANGED <<hvars, tvars, cvars, bvars, mvars, wvars, evars, svars>>
    \/ LoopOnClosed /\ UNCHANGED <<hvars, tvars, cvars, bvars, mvars, wvars, evars, svars>>
    \/ LoopApply /\ UNCHANGED <<hvars, tvars, cvars, bvars, mvars, wvars, svars>>
    \/ LoopApplyReturn /\ UNCHANGED <<hvars, tvars, cvars, bvars, mvars, wvars, svars>>
    \/ LoopAfterApply /\ UNCHANGED <<hvars, tvars, cvars, bvars, mvars, wvars, svars>>
    \/ ShellWrites /\ UNCHANGED <<hvars, tvars, cvars, bvars, mvars, evars, dvars>>
    \/ /\ now < DaemonMaxTime
       /\ Tick
       /\ UNCHANGED <<hvars, tvars, cvars, bvars, mvars, evars, svars, dvars>>
    \/ /\ Subscribed
       /\ CloseChannel
       /\ UNCHANGED <<hvars, tvars, cvars, bvars, mvars, evars, svars, dvars>>
    \/ Recv /\ UNCHANGED <<hvars, tvars, cvars, bvars, mvars, evars, svars, dvars>>
    \/ RecvNone /\ UNCHANGED <<hvars, tvars, cvars, bvars, mvars, evars, svars, dvars>>
    \/ Wake /\ UNCHANGED <<hvars, tvars, cvars, bvars, mvars, evars, svars, dvars>>
    \/ AwwwStart /\ UNCHANGED <<hvars, tvars, cvars, bvars, mvars, wvars, svars, dvars>>
    \/ /\ \E i \in DOMAIN tasks : TaskRun(i)
       /\ UNCHANGED <<hvars, tvars, cvars, bvars, mvars, wvars, svars, dvars>>
    \/ AwwwReturn /\ UNCHANGED <<hvars, tvars, cvars, bvars, mvars, wvars, svars, dvars>>
    \/ MatugenStart /\ UNCHANGED <<hvars, tvars, cvars, bvars, mvars, wvars, svars, dvars>>
    \/ MatugenExit /\ UNCHANGED <<hvars, tvars, cvars, bvars, mvars, wvars, svars, dvars>>
    \/ ApplyReturn /\ UNCHANGED <<hvars, tvars, cvars, bvars, mvars, wvars, svars, dvars>>

SpecD == InitD /\ [][NextD]_vars

\* monitor resolution alone, on drawn inputs
InitM ==
    /\ NoLog
    /\ NoSettings
    /\ NoClassifier
    /\ NoBridge
    /\ NoWatcher
    /\ NoExecutor
    /\ NoSession
    /\ NoDaemon
    /\ InitMonitors

NextM ==
    \/ GetMonitorOutputs /\ UNCHANGED <<hvars, tvars, cvars, bvars, wvars, evars, svars, dvars>>
    \/ RunResolve /\ UNCHANGED <<hvars, tvars, cvars, bvars, wvars, evars, svars, dvars>>

SpecM == InitM /\ [][NextM]_vars

\* run() from the initial apply on, with both commands installed, one of
\* them enabled and no monitor configured, and the log of its
\* apply_wallpaper_once calls
InitL ==
    /\ NoLog
    /\ NoSettings
    /\ NoClassifier
    /\ NoBridge
    /\ NoMonitors
    /\ InitWatcher
    /\ debounce_ms <= DaemonMaxDebounce
    /\ InitSession
    /\ InitExecutor
    /\ config.awww_enabled # config.matugen_enabled
    /\ monitors = << >>
    /\ exists = {PathA}
    /\ change = [wallpapers |-> << >>, is_light_mode |-> FALSE]
    /\ dpc = "initial"
    /\ once \in BOOLEAN
    /\ dret = None
    /\ installed = Tools

NextL ==
    \/ /\ InitialApply
       /\ LogAttempt("initial_applying", "initial_done")
       /\ UNCHANGED since
       /\ UNCHANGED <<tvars, cvars, bvars, mvars, wvars, svars>>
    \/ InitialApplyReturn /\ UNCHANGED <<hvars, tvars, cvars, bvars, mvars, wvars, svars>>
    \/ AfterInitialApply /\ UNCHANGED <<hvars, tvars, cvars, bvars, mvars, wvars, svars>>
    \/ LoopCallNext /\ UNCHANGED <<hvars, tvars, cvars, bvars, mvars, evars, svars>>
    \/ LoopOnEvent /\ UNCHANGED <<hvars, tvars, cvars, bvars, mvars, wvars, evars, svars>>
    \/ LoopOnClosed /\ UNCHANGED <<hvars, tvars, cvars, bvars, mvars, wvars, evars, svars>>
    \/ /\ LoopApply
       /\ LogAttempt("applying", "applied")
       /\ UNCHANGED since
       /\ UNCHANGED <<tvars, cvars, bvars, mvars, wvars, svars>>
    \/ LoopApplyReturn /\ UNCHANGED <<hvars, tvars, cvars, bvars, mvars, wvars, svars>>
    \/ LoopAfterApply /\ UNCHANGED <<hvars, tvars, cvars, bvars, mvars, wvars, svars>>
    \/ ShellWrites /\ UNCHANGED <<hvars, tvars, cvars, bvars, mvars, evars, dvars>>
    \/ /\ now < DaemonMaxTime
       /\ Tick
       /\ UNCHANGED <<hvars, tvars, cvars, bvars, mvars, evars, svars, dvars>>
    \/ /\ Subscribed
       /\ CloseChannel
       /\ UNCHANGED <<hvars, tvars, cvars, bvars, mvars, evars, svars, dvars>>
    \/ Recv /\ UNCHANGED <<hvars, tvars, cvars, bvars, mvars, evars, svars, dvars>>
    \/ RecvNone /\ UNCHANGED <<hvars, tvars, cvars, bvars, mvars, evars, svars, dvars>>
    \/ Wake /\ UNCHANGED <<hvars, tvars, cvars, bvars, mvars, evars, svars, dvars>>
    \/ AwwwStart /\ UNCHANGED <<hvars, tvars, cvars, bvars, mvars, wvars, svars, dvars>>
    \/ /\ \E i \in DOMAIN tasks : TaskRun(i)
       /\ UNCHANGED <<hvars, tvars, cvars, bvars, mvars, wvars, svars, dvars>>
    \/ AwwwReturn /\ UNCHANGED <<hvars, tvars, cvars, bvars, mvars, wvars, svars, dvars>>
    \/ MatugenStart /\ UNCHANGED <<hvars, tvars, cvars, bvars, mvars, wvars, svars, dvars>>
    \/ MatugenExit /\ UNCHANGED <<hvars, tvars, cvars, bvars, mvars, wvars, svars, dvars>>
    \/ ApplyReturn /\ UNCHANGED <<hvars, tvars, cvars, bvars, mvars, wvars, svars, dvars>>

SpecL == InitL /\ [][NextL]_vars

\* the text parser alone, on drawn texts
InitP ==
    /\ NoLog
    /\ NoSettings
    /\ NoClassifier
    /\ NoBridge
    /\ NoWatcher
    /\ NoExecutor
    /\ NoSession
    /\ NoDaemon
    /\ InitParser

NextP ==
    ParseText /\ UNCHANGED <<hvars, tvars, cvars, bvars, wvars, evars, svars, dvars>>

SpecP == InitP /\ [][NextP]_vars

\* the session file the shell has written before a run
WrittenFiles == DaemonFiles \cup {UnreadableFile, MalformedFile}

\* the readers of the two files and one apply_wallpaper_once of a --once run,
\* on a drawn session file, while the settings file is rewritten
InitT ==
    /\ NoLog
    /\ NoClassifier
    /\ NoBridge
    /\ NoMonitors
    /\ NoWatcher
    /\ session \in WrittenFiles
    /\ last_wallpapers = << >>
    /\ hret = NoRet
    /\ hbefore = << >>
    /\ hrepeat = FALSE
    /\ observed = << >>
    /\ observed_before = << >>
    /\ rstate = None
    /\ settings \in SettingsFiles
    /\ scheme_ret = None
    /\ config \in [awww_enabled : BOOLEAN, matugen_enabled : BOOLEAN,
                    default_scheme : Schemes]
    /\ monitors = << >>
    /\ exists = {PathA}
    /\ change = [wallpapers |-> << >>, is_light_mode |-> FALSE]
    /\ epc = "idle"
    /\ apc = "start"
    /\ mpc = "start"
    /\ tasks = << >>
    /\ errors = << >>
    /\ awww_result = Ok
    /\ matugen_result = Ok
    /\ matugen_calls = << >>
    /\ apply_result = None
    /\ dpc = "initial"
    /\ once = TRUE
    /\ dret = None
    /\ installed = Tools

NextT ==
    \/ ReadState /\ UNCHANGED <<hvars, tvars, cvars, bvars, mvars, wvars, evars, dvars>>
    \/ GetMatugenScheme
          /\ UNCHANGED <<hvars, cvars, bvars, mvars, wvars, evars, svars, dvars>>
    \/ WriteSettings /\ UNCHANGED <<hvars, cvars, bvars, mvars, wvars, evars, dvars>>
    \/ InitialApply /\ UNCHANGED <<hvars, tvars, cvars, bvars, mvars, wvars, svars>>
    \/ InitialApplyReturn /\ UNCHANGED <<hvars, tvars, cvars, bvars, mvars, wvars, svars>>
    \/ AfterInitialApply /\ UNCHANGED <<hvars, tvars, cvars, bvars, mvars, wvars, svars>>
    \/ AwwwStart /\ UNCHANGED <<hvars, tvars, cvars, bvars, mvars, wvars, svars, dvars>>
    \/ /\ \E i \in DOMAIN tasks : TaskRun(i)
       /\ UNCHANGED <<hvars, tvars, cvars, bvars, mvars, wvars, svars, dvars>>
    \/ AwwwReturn /\ UNCHANGED <<hvars, tvars, cvars, bvars, mvars, wvars, svars, dvars>>
    \/ MatugenStart /\ UNCHANGED <<hvars, tvars, cvars, bvars, mvars, wvars, svars, dvars>>
    \/ MatugenExit /\ UNCHANGED <<hvars, tvars, cvars, bvars, mvars, wvars, svars, dvars>>
    \/ ApplyReturn /\ UNCHANGED <<hvars, tvars, cvars, bvars, mvars, wvars, svars, dvars>>

SpecT == InitT /\ [][NextT]_vars

\* the bridge task and the debounced watcher: raw notifications from the
\* notify callback to the emissions of next()
InitB ==
    /\ NoLog
    /\ NoSettings
    /\ NoClassifier
    /\ NoMonitors
    /\ NoExecutor
    /\ NoSession
    /\ NoDaemon
    /\ InitWatcher
    /\ debounce_ms <= BridgeMaxDebounce
    /\ InitBridge

NextB ==
    \/ Callback /\ UNCHANGED <<hvars, tvars, cvars, mvars, wvars, evars, svars, dvars>>
    \/ CallbackError /\ UNCHANGED <<hvars, tvars, cvars, mvars, wvars, evars, svars, dvars>>
    \/ BridgeStep /\ UNCHANGED <<hvars, tvars, cvars, mvars, evars, svars, dvars>>
    \/ /\ now < BridgeMaxTime
       /\ Tick
       /\ UNCHANGED <<hvars, tvars, cvars, bvars, mvars, evars, svars, dvars>>
    \/ CallNext /\ UNCHANGED <<hvars, tvars, cvars, bvars, mvars, evars, svars, dvars>>
    \/ Recv /\ UNCHANGED <<hvars, tvars, cvars, bvars, mvars, evars, svars, dvars>>
    \/ Wake /\ UNCHANGED <<hvars, tvars, cvars, bvars, mvars, evars, svars, dvars>>

SpecB == InitB /\ [][NextB]_vars

\* the bridge task under a burst of notifications that outgrows the
\* channel, next() being called with no debounce interval
InitQ ==
    /\ NoLog
    /\ NoSettings
    /\ NoClassifier
    /\ NoMonitors
    /\ NoExecutor
    /\ NoSession
    /\ NoDaemon
    /\ InitWatcher
    /\ debounce_ms = 0
    /\ InitBridge

NextQ ==
    \/ BurstCallback /\ UNCHANGED <<hvars, tvars, cvars, mvars, wvars, evars, svars, dvars>>
    \/ BridgeStep /\ UNCHANGED <<hvars, tvars, cvars, mvars, evars, svars, dvars>>
    \/ CallNext /\ UNCHANGED <<hvars, tvars, cvars, bvars, mvars, evars, svars, dvars>>
    \/ Recv /\ UNCHANGED <<hvars, tvars, cvars, bvars, mvars, evars, svars, dvars>>

SpecQ == InitQ /\ [][NextQ]_vars

\* error classification alone, on drawn errors
InitC ==
    /\ NoLog
    /\ NoSettings
    /\ NoBridge
    /\ NoMonitors
    /\ NoWatcher
    /\ NoExecutor
    /\ NoSession
    /\ NoDaemon
    /\ InitClassifier

NextC ==
    \/ IsCritical /\ UNCHANGED <<hvars, tvars, bvars, mvars, wvars, evars, svars, dvars>>
    \/ IsRecoverable /\ UNCHANGED <<hvars, tvars, bvars, mvars, wvars, evars, svars, dvars>>

SpecC == InitC /\ [][NextC]_vars

====
